---- MODULE Spec2Model ----
(***************************************************************************)
(* A model of the Klondike solitaire engine and its depth-first solver     *)
(* (solitaire.js, solve.js, lrucache.js and the line driver).              *)
(*                                                                         *)
(* JavaScript strings are modelled as sequences of one-character strings,  *)
(* a card being the two-character string <<value, suit>>.  JavaScript      *)
(* objects and arrays live in a heap (a sequence of cells addressed by     *)
(* position), so that two references to one array really share it.         *)
(* Column, row and suit indices inside moves are 0-based as in the source; *)
(* TLA+ sequences are 1-based, hence the "+ 1" at every array access.      *)
(***************************************************************************)
EXTENDS Integers, Sequences, FiniteSets, TLC

VARIABLES
  inputDeck,  \* the deck the game was constructed from
  heap,       \* the objects and arrays of the program
  gameRef,    \* address of the Solitaire object constructed from the deck
  otherRef,   \* address of the object game.clone() returned, 0 before the call
  last,       \* the call made last: its name, receiver, move type and result
  solver,     \* the fields of the Solver object
  seenCardStacks,  \* the Set the calls of getWinningMoves share
  stack,      \* the calls of getWinningMoves in progress, outermost first
  returned,   \* what the call that ended last returned
  now,        \* Date.now(), in milliseconds
  driver,     \* the driver: its status, winningMoves and replay index
  fired,      \* how often each step of the solver has been taken
  history     \* what the calls made on a cache by hand say about each key

vars == <<inputDeck, heap, gameRef, otherRef, last, solver, seenCardStacks,
          stack, returned, now, driver, fired, history>>

solverVars == <<solver, seenCardStacks, stack, returned, now, driver, fired>>

\* ------------------------------------------------------------------------
\* Bounds of the model
\* ------------------------------------------------------------------------

\* Largest drawSize the rules are drawn from (Rules.drawSize is 1..MaxDrawSize).
MaxDrawSize == 2

\* Number of decks of DeckList the game-play specification deals from.
NumPlayDecks == 3

\* Number of decks of DeckList the clone specification deals from.
NumCloneDecks == 1

\* Number of decks of DeckList the solver is run on.
NumSolveDecks == 3

\* Number of decks of DeckList, after the first, the solver is run on with a
\* clock.
NumTimeoutDecks == 2

\* Largest capacity of the state cache tried besides the default one.
MaxCacheSize == 2

\* Largest timeoutSeconds given to the driver with a clock.
MaxTimeoutSeconds == 0

\* Depth of the call stack at which the engine throws a RangeError: deeper
\* than every search of the model that returns.
MaxDepth == 16

\* cacheSize = 1000000 (solve.js, line 8)
DefaultCacheSize == 1000000

\* timeoutSeconds defaults to 30 and is multiplied by 1000 (driver, lines 8, 22)
DefaultTimeoutSeconds == 30
MsPerSecond == 1000

\* Largest tableauSize the rules are drawn from (Rules.tableauSize is
\* 2..MaxTableauSize).
MaxTableauSize == 3

\* Number of keys has and add are called with by hand, and the largest
\* maxSize of the cache they are called on.
NumKeys == 3
MaxSize == 2

\* Number of decks of WonDeckList the games played to the end are dealt from.
NumWonDecks == 2

\* ------------------------------------------------------------------------
\* Generic helpers for sequences (JavaScript arrays and strings)
\* ------------------------------------------------------------------------

\* Array.prototype.reverse / slice().reverse()
Reverse(s) == [i \in 1..Len(s) |-> s[Len(s) + 1 - i]]

\* Array.prototype.slice(from) with a 0-based start index
SliceFrom(s, from) == SubSeq(s, from + 1, Len(s))

\* Array.prototype.slice(0, to) with a 0-based exclusive end index
SliceTo(s, to) == SubSeq(s, 1, to)

\* The last element of a non-empty array: a[a.length - 1]
Last(s) == s[Len(s)]

\* Array.prototype.pop's remaining array
ButLast(s) == SubSeq(s, 1, Len(s) - 1)

\* [].concat.apply([], lists): the concatenation of a sequence of sequences
RECURSIVE Flatten(_)
Flatten(ss) == IF ss = <<>> THEN <<>> ELSE Head(ss) \o Flatten(Tail(ss))

\* The elements of a sequence
Range(s) == {s[i] : i \in 1..Len(s)}

\* The subsequence of the elements satisfying Test, in order
SelectIdx(s, Test(_)) ==
  LET F[i \in 0..Len(s)] ==
        IF i = 0 THEN <<>>
        ELSE IF Test(i) THEN Append(F[i - 1], s[i]) ELSE F[i - 1]
  IN F[Len(s)]

\* ------------------------------------------------------------------------
\* Cards (solitaire.js, lines 6-45)
\* ------------------------------------------------------------------------

SPADES == "S"
DIAMONDS == "D"
CLUBS == "C"
HEARTS == "H"
SUITS == <<SPADES, HEARTS, DIAMONDS, CLUBS>>
VALUES == <<"A", "2", "3", "4", "5", "6", "7", "8", "9", "T", "J", "Q", "K">>

\* Array.prototype.indexOf: the 0-based index of x in s, or -1
indexOf(s, x) ==
  IF \E i \in 1..Len(s) : s[i] = x
  THEN (CHOOSE i \in 1..Len(s) : s[i] = x /\ \A j \in 1..(i - 1) : s[j] # x) - 1
  ELSE -1

\* A colour test that every pair of cards passes
areDifferentColorsAlways(card1, card2) == TRUE

getValue(card) == card[1]
getSuit(card) == card[2]
isBlack(card) == getSuit(card) = SPADES \/ getSuit(card) = CLUBS

\* Colours taken for different when the suits are
areDifferentColorsBySuit(card1, card2) == getSuit(card1) # getSuit(card2)

areDifferentColors(card1, card2) == isBlack(card1) # isBlack(card2)

\* VALUES[i] + suit : the card of 0-based value index i and the suit
CardOf(i, suit) == <<VALUES[i + 1], suit>>

\* The 52 cards, SORTED_DECK
SORTED_DECK == Flatten([s \in 1..Len(SUITS) |->
                 [v \in 1..Len(VALUES) |-> <<VALUES[v], SUITS[s]>>]])

\* ------------------------------------------------------------------------
\* Rules and moves (solitaire.js, lines 68-105)
\* ------------------------------------------------------------------------

Rules(drawSize, tableauSize) == [drawSize |-> drawSize, tableauSize |-> tableauSize]

DRAW == 1
WASTE_TO_FOUNDATION == 2
WASTE_TO_TABLEAU == 3
TABLEAU_TO_FOUNDATION == 4
TABLEAU_TO_TABLEAU == 5
FOUNDATION_TO_TABLEAU == 6

Move(type, extras) == [type |-> type, extras |-> extras]

\* ------------------------------------------------------------------------
\* The game as a value: what the fields of a Solitaire object hold
\* ------------------------------------------------------------------------

\* A deal that lays every card face up
RECURSIVE DealFromFaceUp(_, _, _)
DealFromFaceUp(g, row, column) ==
  IF row >= g.rules.tableauSize THEN g
  ELSE IF column >= g.rules.tableauSize THEN DealFromFaceUp(g, row + 1, row + 1)
  ELSE DealFromFaceUp(
         [g EXCEPT !.hand = ButLast(@),
                   !.tableau[column + 1].faceUp = Append(@, Last(g.hand))],
         row, column + 1)

\* The constructor (solitaire.js, lines 111-141): the hand is a copy of the
\* deck; row by row one card is popped from the hand for every column from
\* the row's own on, face up on the diagonal and face down off it.
RECURSIVE DealFrom(_, _, _)
DealFrom(g, row, column) ==
  IF row >= g.rules.tableauSize THEN g
  ELSE IF column >= g.rules.tableauSize THEN DealFrom(g, row + 1, row + 1)
  ELSE LET card == Last(g.hand)
           popped == [g EXCEPT !.hand = ButLast(@)]
       IN DealFrom(
            IF row = column
            THEN [popped EXCEPT !.tableau[column + 1].faceUp = Append(@, card)]
            ELSE [popped EXCEPT !.tableau[column + 1].faceDown = Append(@, card)],
            row, column + 1)

Solitaire(rules, deck) ==
  DealFrom([rules |-> rules,
            foundation |-> [s \in {SPADES, DIAMONDS, CLUBS, HEARTS} |-> -1],
            hand |-> deck,
            waste |-> <<>>,
            tableau |-> [i \in 1..rules.tableauSize |->
                           [faceDown |-> <<>>, faceUp |-> <<>>]]],
           0, 0)

\* isValid (solitaire.js, lines 146-283): whether the move could be applied.
isValid(game, move) ==
  LET n == Len(game.tableau)
      x == move.extras
  IN
  CASE move.type = DRAW ->
         ~(Len(game.hand) = 0 /\ Len(game.waste) = 0)
    [] move.type = WASTE_TO_FOUNDATION ->
         /\ Len(game.waste) # 0
         /\ LET card == Last(game.waste)
            IN indexOf(VALUES, getValue(card)) = game.foundation[getSuit(card)] + 1
    [] move.type = WASTE_TO_TABLEAU ->
         /\ Len(x) >= 1
         /\ ~(Len(game.waste) = 0 \/ x[1] < 0 \/ x[1] >= n)
         /\ LET column == game.tableau[x[1] + 1]
                srcCard == Last(game.waste)
            IN IF Len(column.faceUp) = 0
               THEN getValue(srcCard) = VALUES[Len(VALUES)]
               ELSE LET dstCard == Last(column.faceUp)
                    IN /\ areDifferentColors(srcCard, dstCard)
                       /\ indexOf(VALUES, getValue(srcCard))
                            = indexOf(VALUES, getValue(dstCard)) - 1
    [] move.type = TABLEAU_TO_FOUNDATION ->
         /\ Len(x) >= 1
         /\ ~(x[1] < 0 \/ x[1] >= n)
         /\ Len(game.tableau[x[1] + 1].faceUp) # 0
         /\ LET card == Last(game.tableau[x[1] + 1].faceUp)
            IN indexOf(VALUES, getValue(card)) = game.foundation[getSuit(card)] + 1
    [] move.type = TABLEAU_TO_TABLEAU ->
         /\ Len(x) >= 3
         /\ ~(x[1] < 0 \/ x[1] >= n \/ x[3] < 0 \/ x[3] >= n)
         /\ ~(x[2] < 0 \/ x[2] >= Len(game.tableau[x[1] + 1].faceUp))
         /\ LET srcCard == game.tableau[x[1] + 1].faceUp[x[2] + 1]
                dstUp == game.tableau[x[3] + 1].faceUp
            IN IF Len(dstUp) = 0
               THEN getValue(srcCard) = VALUES[Len(VALUES)]
               ELSE /\ areDifferentColors(srcCard, Last(dstUp))
                    /\ indexOf(VALUES, getValue(srcCard))
                         = indexOf(VALUES, getValue(Last(dstUp))) - 1
    [] move.type = FOUNDATION_TO_TABLEAU ->
         /\ Len(x) >= 2
         /\ ~(x[1] < 0 \/ x[1] >= Len(SUITS))
         /\ LET suit == SUITS[x[1] + 1]
            IN /\ ~(game.foundation[suit] < 0 \/ x[2] < 0 \/ x[2] >= n)
               /\ Len(game.tableau[x[2] + 1].faceUp) # 0
               /\ LET foundationCard == CardOf(game.foundation[suit], suit)
                      dstCard == Last(game.tableau[x[2] + 1].faceUp)
                  IN /\ areDifferentColors(dstCard, foundationCard)
                     /\ indexOf(VALUES, getValue(dstCard))
                          = indexOf(VALUES, getValue(foundationCard)) + 1
    [] OTHER -> FALSE

\* The longest faceUp stack of the game
MaxFaceUp(game) ==
  LET lens == {Len(game.tableau[i].faceUp) : i \in 1..Len(game.tableau)}
  IN CHOOSE l \in lens : \A k \in lens : k <= l

\* isWon that does not look at the waste
isWonIgnoringWaste(game) ==
  /\ ~(Len(game.hand) > 0)
  /\ \A i \in 1..Len(game.tableau) : ~(Len(game.tableau[i].faceDown) > 0)

\* isWon (solitaire.js, lines 363-373)
isWon(game) ==
  /\ ~(Len(game.hand) > 0 \/ Len(game.waste) > 0)
  /\ \A i \in 1..Len(game.tableau) : ~(Len(game.tableau[i].faceDown) > 0)

\* ------------------------------------------------------------------------
\* The heap: JavaScript objects and arrays, addressed by position
\* ------------------------------------------------------------------------
\* A Solitaire object holds the addresses of its hand, waste, foundation and
\* tableau; the tableau array holds the addresses of the column objects; a
\* column object holds the addresses of its faceDown and faceUp arrays.

ArrayCell(val) == [kind |-> "Array", val |-> val]

\* The fields of the Solitaire object at address g, read through the heap
View(h, g) ==
  [rules |-> h[g].rules,
   foundation |-> h[h[g].foundation].val,
   hand |-> h[h[g].hand].val,
   waste |-> h[h[g].waste].val,
   tableau |-> [i \in 1..Len(h[h[g].tableau].val) |->
                  LET column == h[h[h[g].tableau].val[i]]
                  IN [faceDown |-> h[column.faceDown].val,
                      faceUp |-> h[column.faceUp].val]]]

\* A new Solitaire object with fresh arrays and objects holding the given
\* field values, allocated at the end of the heap.
NewSolitaire(h, game) ==
  LET b == Len(h)
      n == Len(game.tableau)
      columns == Flatten([i \in 1..n |->
                   << [kind |-> "Column",
                       faceDown |-> b + 5 + 3 * (i - 1) + 2,
                       faceUp |-> b + 5 + 3 * (i - 1) + 3],
                      ArrayCell(game.tableau[i].faceDown),
                      ArrayCell(game.tableau[i].faceUp) >>])
  IN [ref |-> b + 1,
      heap |-> h \o << [kind |-> "Solitaire", rules |-> game.rules,
                        foundation |-> b + 2, hand |-> b + 3,
                        waste |-> b + 4, tableau |-> b + 5],
                       [kind |-> "Object", val |-> game.foundation],
                       ArrayCell(game.hand),
                       ArrayCell(game.waste),
                       [kind |-> "Tableau",
                        val |-> [i \in 1..n |-> b + 5 + 3 * (i - 1) + 1]] >>
                   \o columns]

\* A clone that copies the Solitaire object alone: the copy holds the
\* addresses of the original's foundation, hand, waste and tableau.
cloneShallow(h, g) == [ref |-> Len(h) + 1, heap |-> Append(h, h[g])]

\* clone (solitaire.js, lines 379-392): a new object whose foundation is a
\* new object with the four heights copied, whose hand and waste are slices,
\* and whose tableau is a new array of new column objects holding slices.
clone(h, g) == NewSolitaire(h, View(h, g))

\* The addresses reachable from the Solitaire object g, in a fixed order
Reach(h, g) ==
  <<g, h[g].foundation, h[g].hand, h[g].waste, h[g].tableau>>
  \o Flatten([i \in 1..Len(h[h[g].tableau].val) |->
       LET c == h[h[g].tableau].val[i]
       IN <<c, h[c].faceDown, h[c].faceUp>>])

\* s without the later occurrences of its elements
Dedupe(s) == SelectIdx(s, LAMBDA i : \A j \in 1..(i - 1) : s[j] # s[i])

\* Addresses cannot be observed by the program: the heap is kept in the
\* canonical form in which the cells reachable from the roots are numbered
\* in the order Reach visits them and the unreachable ones are dropped.
Canon(h, roots) ==
  LET order == Dedupe(Flatten([k \in 1..Len(roots) |-> Reach(h, roots[k])]))
      to(a) == indexOf(order, a) + 1
      moved(cell) ==
        CASE cell.kind = "Solitaire" ->
               [cell EXCEPT !.foundation = to(@), !.hand = to(@),
                            !.waste = to(@), !.tableau = to(@)]
          [] cell.kind = "Column" ->
               [cell EXCEPT !.faceDown = to(@), !.faceUp = to(@)]
          [] cell.kind = "Tableau" ->
               [cell EXCEPT !.val = [i \in 1..Len(@) |-> to(@[i])]]
          [] OTHER -> cell
  IN [heap |-> [k \in 1..Len(order) |-> moved(h[order[k]])],
      roots |-> [k \in 1..Len(roots) |-> to(roots[k])]]

\* A draw that pushes the top card of the hand onto the waste and leaves it
\* in the hand as well
DrawCardsKeepingHand(h, g, cardsToDraw) ==
  IF cardsToDraw > 0 /\ Len(h[h[g].hand].val) > 0
  THEN [h EXCEPT ![h[g].waste].val = Append(@, Last(h[h[g].hand].val))]
  ELSE h

\* A draw that moves the cards to the waste together, in the order they had
\* in the hand
DrawCardsTogether(h, g, cardsToDraw) ==
  LET hand == h[h[g].hand].val
      k == IF cardsToDraw < Len(hand) THEN cardsToDraw ELSE Len(hand)
      popped == [h EXCEPT ![h[g].hand].val = SubSeq(hand, 1, Len(hand) - k)]
  IN [popped EXCEPT ![h[g].waste].val = @ \o SubSeq(hand, Len(hand) - k + 1, Len(hand))]

\* while (cardsToDraw > 0 && this.hand.length > 0)
\*   this.waste.push(this.hand.pop())
RECURSIVE DrawCards(_, _, _)
DrawCards(h, g, cardsToDraw) ==
  IF cardsToDraw > 0 /\ Len(h[h[g].hand].val) > 0
  THEN LET card == Last(h[h[g].hand].val)
           popped == [h EXCEPT ![h[g].hand].val = ButLast(@)]
           pushed == [popped EXCEPT ![h[g].waste].val = Append(@, card)]
       IN DrawCards(pushed, g, cardsToDraw - 1)
  ELSE h

\* A loop that flips no card
FlipExposedNever(h, g, i) == h

\* The loop of solitaire.js, lines 348-354, from column i on: a column whose
\* faceUp is empty and whose faceDown is not gets the top face-down card.
RECURSIVE FlipExposed(_, _, _)
FlipExposed(h, g, i) ==
  IF i > Len(h[h[g].tableau].val) THEN h
  ELSE LET column == h[h[h[g].tableau].val[i]]
       IN IF Len(h[column.faceUp].val) = 0 /\ Len(h[column.faceDown].val) # 0
          THEN LET card == Last(h[column.faceDown].val)
                   popped == [h EXCEPT ![column.faceDown].val = ButLast(@)]
                   pushed == [popped EXCEPT ![column.faceUp].val = Append(@, card)]
               IN FlipExposed(pushed, g, i + 1)
          ELSE FlipExposed(h, g, i + 1)

\* applyMove (solitaire.js, lines 288-355), on the object at address g.
\* Precondition: isValid(move).
applyMove(h, g, move) ==
  LET x == move.extras
      columnAt(hh, i) == hh[hh[g].tableau].val[i + 1]
      switched ==
        CASE move.type = DRAW ->
               LET flipped ==
                     IF Len(h[h[g].hand].val) = 0 /\ Len(h[h[g].waste].val) > 0
                     THEN LET w == h[g].waste
                              \* this.waste.reverse() reverses in place and
                              \* returns the same array, which becomes the hand
                              reversed == [h EXCEPT ![w].val = Reverse(@)]
                              handSet == [reversed EXCEPT ![g].hand = w]
                              \* this.waste = []
                              fresh == Append(handSet, ArrayCell(<<>>))
                          IN [fresh EXCEPT ![g].waste = Len(fresh)]
                     ELSE h
               IN DrawCards(flipped, g, h[g].rules.drawSize)
          [] move.type = WASTE_TO_FOUNDATION ->
               LET card == Last(h[h[g].waste].val)
                   raised == [h EXCEPT ![h[g].foundation].val[getSuit(card)] = @ + 1]
               IN [raised EXCEPT ![h[g].waste].val = ButLast(@)]
          [] move.type = WASTE_TO_TABLEAU ->
               LET column == columnAt(h, x[1])
                   srcCard == Last(h[h[g].waste].val)
                   popped == [h EXCEPT ![h[g].waste].val = ButLast(@)]
               IN [popped EXCEPT ![popped[column].faceUp].val = Append(@, srcCard)]
          [] move.type = TABLEAU_TO_FOUNDATION ->
               LET column == columnAt(h, x[1])
                   card == Last(h[h[column].faceUp].val)
                   raised == [h EXCEPT ![h[g].foundation].val[getSuit(card)] = @ + 1]
               IN [raised EXCEPT ![raised[column].faceUp].val = ButLast(@)]
          [] move.type = TABLEAU_TO_TABLEAU ->
               LET src == columnAt(h, x[1])
                   dst == columnAt(h, x[3])
                   \* tableau[dstCol].faceUp = tableau[dstCol].faceUp.concat(
                   \*   tableau[srcCol].faceUp.slice(srcRow))
                   h1 == Append(h, ArrayCell(h[h[dst].faceUp].val
                                  \o SliceFrom(h[h[src].faceUp].val, x[2])))
                   h2 == [h1 EXCEPT ![dst].faceUp = Len(h1)]
                   \* tableau[srcCol].faceUp = tableau[srcCol].faceUp.slice(0, srcRow)
                   h3 == Append(h2, ArrayCell(SliceTo(h2[h2[src].faceUp].val, x[2])))
               IN [h3 EXCEPT ![src].faceUp = Len(h3)]
          [] move.type = FOUNDATION_TO_TABLEAU ->
               LET suit == SUITS[x[1] + 1]
                   foundationCard == CardOf(h[h[g].foundation].val[suit], suit)
                   dstCol == columnAt(h, x[2])
                   pushed == [h EXCEPT ![h[dstCol].faceUp].val = Append(@, foundationCard)]
               IN [pushed EXCEPT ![pushed[g].foundation].val[suit] = @ - 1]
          [] OTHER -> h
  IN FlipExposed(switched, g, 1)

\* An isValid that pops the waste it has looked at
isValidCallPopping(h, g, move) ==
  [ret |-> isValid(View(h, g), move),
   heap |-> [h EXCEPT ![h[g].waste].val = IF @ = <<>> THEN @ ELSE ButLast(@)]]

\* A call of isValid on the object at address g: the value it returns and
\* the heap it leaves.  isValid (solitaire.js, lines 146-283) only reads.
isValidCall(h, g, move) == [ret |-> isValid(View(h, g), move), heap |-> h]

\* ------------------------------------------------------------------------
\* Strings
\* ------------------------------------------------------------------------

Digits == <<"0", "1", "2", "3", "4", "5", "6", "7", "8", "9">>

\* '' + n for a number n >= 0: its decimal digits
RECURSIVE toString(_)
toString(n) ==
  IF n < 10 THEN <<Digits[n + 1]>>
  ELSE toString(n \div 10) \o <<Digits[(n % 10) + 1]>>

\* The code unit of a character of a card, a digit or a separator
charCodeAt(c) ==
  CASE c = "," -> 44
    [] c \in Range(Digits) -> 48 + indexOf(Digits, c)
    [] c = "A" -> 65 [] c = "C" -> 67 [] c = "D" -> 68 [] c = "H" -> 72
    [] c = "J" -> 74 [] c = "K" -> 75 [] c = "Q" -> 81 [] c = "S" -> 83
    [] c = "T" -> 84
    [] c = "|" -> 124

\* a < b for strings: the order of the default Array.prototype.sort, which
\* compares code unit by code unit and puts a proper prefix first
StringLess(a, b) ==
  \E k \in 1..(Len(a) + 1) :
    /\ \A j \in 1..(k - 1) : j <= Len(b) /\ a[j] = b[j]
    /\ \/ k = Len(a) + 1 /\ k <= Len(b)
       \/ k <= Len(a) /\ k <= Len(b) /\ charCodeAt(a[k]) < charCodeAt(b[k])

\* A stable sort: every element goes behind the elements that are not to
\* come after it
SortBy(s, Before(_, _)) ==
  LET RECURSIVE sorted(_)
      sorted(k) ==
        IF k = 0 THEN <<>>
        ELSE LET prev == sorted(k - 1)
                 p == Cardinality({i \in 1..Len(prev) : ~Before(s[k], prev[i])})
             IN SubSeq(prev, 1, p) \o <<s[k]>> \o SubSeq(prev, p + 1, Len(prev))
  IN sorted(Len(s))

\* An array of strings left in the order it had
unsorted(strs) == strs

\* Array.prototype.sort() on an array of strings
sort(strs) == SortBy(strs, StringLess)

\* Array.prototype.join
RECURSIVE join(_, _)
join(strs, separator) ==
  IF strs = <<>> THEN <<>>
  ELSE IF Len(strs) = 1 THEN strs[1]
  ELSE strs[1] \o separator \o join(Tail(strs), separator)

\* ------------------------------------------------------------------------
\* LRUCache (lrucache.js): the keys of the Map in insertion order
\* ------------------------------------------------------------------------

LRUCache(maxSize) == [maxSize |-> maxSize, cache |-> <<>>]

\* Map.prototype.delete
delete(keys, key) == SelectSeq(keys, LAMBDA k : k # key)

\* has that deletes the key it finds and does not set it again
hasForgetting(c, key) ==
  [ret |-> key \in Range(c.cache), cache |-> [c EXCEPT !.cache = delete(@, key)]]

\* has that finds nothing
hasNever(c, key) == [ret |-> FALSE, cache |-> c]

\* has that leaves the key it finds where it is
hasWithoutRefresh(c, key) == [ret |-> key \in Range(c.cache), cache |-> c]

\* has(key): the value returned and the cache after the call
has(c, key) ==
  IF key \in Range(c.cache)
  THEN [ret |-> TRUE, cache |-> [c EXCEPT !.cache = Append(delete(@, key), key)]]
  ELSE [ret |-> FALSE, cache |-> c]

\* add that never deletes the oldest key
addWithoutEviction(c, key) == [c EXCEPT !.cache = Append(delete(@, key), key)]

\* add(key): the cache after the call
add(c, key) ==
  LET kept == IF key \in Range(c.cache) THEN delete(c.cache, key)
              ELSE IF Len(c.cache) >= c.maxSize /\ c.cache # <<>>
                   THEN Tail(c.cache)
                   ELSE c.cache
  IN [c EXCEPT !.cache = Append(kept, key)]

size(c) == Len(c.cache)

\* ------------------------------------------------------------------------
\* Solver (solve.js): the functions that enumerate moves and name states
\* ------------------------------------------------------------------------

\* new Solver(game, timeout, cacheSize) at time dateNow
Solver(game, timeout, cacheSize, dateNow) ==
  [game |-> game,
   stateCache |-> LRUCache(cacheSize),
   startTimestamp |-> dateNow,
   tableauRevealingMoveCache |-> <<>>,
   tableauNonrevealingMoveCache |-> <<>>,
   calls |-> 0,
   tableauCacheHit |-> 0,
   tableauCacheMiss |-> 0,
   timeout |-> timeout,
   didTimeout |-> FALSE]

\* The moves of the columns 0..n-1 for which Pick gives one
ColumnMoves(game, Pick(_)) ==
  Flatten([i \in 1..Len(game.tableau) |-> Pick(i - 1)])

getAceMoves(game) ==
  (IF Len(game.waste) > 0 /\ Last(game.waste)[1] = "A"
   THEN <<Move(WASTE_TO_FOUNDATION, <<>>)>> ELSE <<>>)
  \o ColumnMoves(game, LAMBDA i :
       LET faceUpCards == game.tableau[i + 1].faceUp
       IN IF Len(faceUpCards) > 0 /\ Last(faceUpCards)[1] = "A"
          THEN <<Move(TABLEAU_TO_FOUNDATION, <<i>>)>> ELSE <<>>)

\* Moves to the foundation that do not leave the aces out
getMovesToFoundationWithAces(game) ==
  (IF /\ Len(game.waste) > 0
      /\ isValid(game, Move(WASTE_TO_FOUNDATION, <<>>))
   THEN <<Move(WASTE_TO_FOUNDATION, <<>>)>> ELSE <<>>)
  \o ColumnMoves(game, LAMBDA i :
       LET faceUpCards == game.tableau[i + 1].faceUp
       IN IF /\ Len(faceUpCards) > 0
             /\ isValid(game, Move(TABLEAU_TO_FOUNDATION, <<i>>))
          THEN <<Move(TABLEAU_TO_FOUNDATION, <<i>>)>> ELSE <<>>)

getMovesToFoundation(game) ==
  (IF /\ Len(game.waste) > 0 /\ Last(game.waste)[1] # "A"
      /\ isValid(game, Move(WASTE_TO_FOUNDATION, <<>>))
   THEN <<Move(WASTE_TO_FOUNDATION, <<>>)>> ELSE <<>>)
  \o ColumnMoves(game, LAMBDA i :
       LET faceUpCards == game.tableau[i + 1].faceUp
       IN IF /\ Len(faceUpCards) > 0 /\ Last(faceUpCards)[1] # "A"
             /\ isValid(game, Move(TABLEAU_TO_FOUNDATION, <<i>>))
          THEN <<Move(TABLEAU_TO_FOUNDATION, <<i>>)>> ELSE <<>>)

hasEmptySpace(tableau) == \E i \in 1..Len(tableau) : Len(tableau[i].faceUp) = 0

\* A comparator that puts fewer face-down cards first whether or not a
\* column is empty
compareRevealingAscending(game, needsKingSpace, first, second) ==
  LET firstFaceDownCount == Len(game.tableau[first.extras[1] + 1].faceDown)
      secondFaceDownCount == Len(game.tableau[second.extras[1] + 1].faceDown)
  IN IF firstFaceDownCount # secondFaceDownCount
     THEN firstFaceDownCount - secondFaceDownCount
     ELSE first.extras[1] - second.extras[1]

\* A comparator that looks at the source column only
compareRevealingByColumn(game, needsKingSpace, first, second) ==
  first.extras[1] - second.extras[1]

\* The comparator of the sort in getCardRevealingMoves (lines 111-123)
compareRevealing(game, needsKingSpace, first, second) ==
  LET firstFaceDownCount == Len(game.tableau[first.extras[1] + 1].faceDown)
      secondFaceDownCount == Len(game.tableau[second.extras[1] + 1].faceDown)
  IN IF firstFaceDownCount # secondFaceDownCount
     THEN IF needsKingSpace
          THEN firstFaceDownCount - secondFaceDownCount
          ELSE secondFaceDownCount - firstFaceDownCount
     ELSE first.extras[1] - second.extras[1]

\* getCardRevealingMoves: the moves returned and the solver after the call
getCardRevealingMoves(s, game, tableauCacheString) ==
  IF tableauCacheString \in DOMAIN s.tableauRevealingMoveCache
  THEN [ret |-> s.tableauRevealingMoveCache[tableauCacheString],
        solver |-> [s EXCEPT !.tableauCacheHit = @ + 1]]
  ELSE LET needsKingSpace == ~hasEmptySpace(game.tableau)
           found == ColumnMoves(game, LAMBDA i :
             IF Len(game.tableau[i + 1].faceUp) > 0
             THEN ColumnMoves(game, LAMBDA j :
                    IF i # j /\ isValid(game, Move(TABLEAU_TO_TABLEAU, <<i, 0, j>>))
                    THEN <<Move(TABLEAU_TO_TABLEAU, <<i, 0, j>>)>> ELSE <<>>)
             ELSE <<>>)
           ret == SortBy(found, LAMBDA first, second :
                    compareRevealing(game, needsKingSpace, first, second) < 0)
       IN [ret |-> ret,
           solver |-> [s EXCEPT !.tableauCacheMiss = @ + 1,
                                !.tableauRevealingMoveCache =
                                   (tableauCacheString :> ret) @@ @]]

\* Moves from the waste to every column, valid or not
getMovesWasteToTableauUnchecked(game) ==
  ColumnMoves(game, LAMBDA i : <<Move(WASTE_TO_TABLEAU, <<i>>)>>)

\* Moves from the waste to the tableau made with the type of the moves from
\* the foundation
getMovesWasteToTableauAsFoundation(game) ==
  ColumnMoves(game, LAMBDA i :
    IF isValid(game, Move(WASTE_TO_TABLEAU, <<i>>))
    THEN <<Move(FOUNDATION_TO_TABLEAU, <<i>>)>> ELSE <<>>)

getMovesWasteToTableau(game) ==
  ColumnMoves(game, LAMBDA i :
    IF isValid(game, Move(WASTE_TO_TABLEAU, <<i>>))
    THEN <<Move(WASTE_TO_TABLEAU, <<i>>)>> ELSE <<>>)

\* A solver that never draws
getDrawMoveNever(game) == <<>>

getDrawMove(game) ==
  IF isValid(game, Move(DRAW, <<>>)) THEN <<Move(DRAW, <<>>)>> ELSE <<>>

\* getMovesTableauToTableau: the moves returned and the solver after the
\* call (line 159 reads tableauCacheMiss and does not count the miss)
getMovesTableauToTableau(s, game, tableauCacheString) ==
  IF tableauCacheString \in DOMAIN s.tableauNonrevealingMoveCache
  THEN [ret |-> s.tableauNonrevealingMoveCache[tableauCacheString],
        solver |-> [s EXCEPT !.tableauCacheHit = @ + 1]]
  ELSE LET ret == ColumnMoves(game, LAMBDA i :
             LET srcFaceUp == game.tableau[i + 1].faceUp
             IN Flatten([j \in 1..(Len(srcFaceUp) - 1) |->
                  ColumnMoves(game, LAMBDA k :
                    IF i # k /\ isValid(game, Move(TABLEAU_TO_TABLEAU, <<i, j, k>>))
                    THEN <<Move(TABLEAU_TO_TABLEAU, <<i, j, k>>)>> ELSE <<>>)]))
       IN [ret |-> ret,
           solver |-> [s EXCEPT !.tableauNonrevealingMoveCache =
                                   (tableauCacheString :> ret) @@ @]]

\* game.tableau.map(c => c.faceUp.join('')).join('|')
TableauCacheString(game) ==
  join([i \in 1..Len(game.tableau) |-> Flatten(game.tableau[i].faceUp)], <<"|">>)

\* getValidMoves that tries the draw before the moves from the waste to the
\* tableau
getValidMovesDrawFirst(s, game) ==
  LET tableauCacheString == TableauCacheString(game)
      revealing == getCardRevealingMoves(s, game, tableauCacheString)
      nonrevealing == getMovesTableauToTableau(revealing.solver, game,
                                               tableauCacheString)
  IN [ret |-> getAceMoves(game) \o getMovesToFoundation(game) \o revealing.ret
                \o getDrawMove(game) \o getMovesWasteToTableau(game)
                \o nonrevealing.ret,
      solver |-> nonrevealing.solver]

\* getValidMoves: the moves returned and the solver after the call
getValidMoves(s, game) ==
  LET tableauCacheString == TableauCacheString(game)
      revealing == getCardRevealingMoves(s, game, tableauCacheString)
      nonrevealing == getMovesTableauToTableau(revealing.solver, game,
                                               tableauCacheString)
  IN [ret |-> getAceMoves(game) \o getMovesToFoundation(game) \o revealing.ret
                \o getMovesWasteToTableau(game) \o getDrawMove(game)
                \o nonrevealing.ret,
      solver |-> nonrevealing.solver]

\* The cards getGameStateId collects in accessibleDrawCards, in the order
\* the Set keeps them
accessibleDrawCards(game) ==
  LET drawSize == game.rules.drawSize
      newDeck == Reverse(game.waste) \o game.hand
      length == Len(newDeck)
  IN Dedupe((IF Len(game.waste) > 0 THEN <<Last(game.waste)>> ELSE <<>>)
            \o [k \in 1..(length \div drawSize) |-> newDeck[length - k * drawSize + 1]]
            \o (IF length > 0 THEN <<newDeck[1]>> ELSE <<>>))

\* getGameStateId (lines 194-221)
getGameStateId(game, canFlipDeck) ==
  join(<< IF canFlipDeck THEN <<"1">> ELSE <<"0">>,
          IF Len(game.waste) > 0 THEN Last(game.waste) ELSE <<>>,
          join(accessibleDrawCards(game), <<>>),
          join([s \in 1..Len(SUITS) |-> toString(game.foundation[SUITS[s]] + 1)],
               <<",">>),
          join(sort([index \in 1..Len(game.tableau) |->
                 LET col == game.tableau[index]
                 IN IF Len(col.faceDown) > 0
                    THEN toString(index - 1) \o toString(Len(col.faceDown))
                         \o join(col.faceUp, <<>>)
                    ELSE join(col.faceUp, <<>>)]),
               <<",">>) >>,
       <<"|">>)

\* ------------------------------------------------------------------------
\* Inputs
\* ------------------------------------------------------------------------

\* A card written as in a deck line, e.g. C("K", "S") for KS
C(v, s) == <<v, s>>

\* Decks (sub-decks of the 52 cards, so that the state space stays small).
\* Position 1 is the first card of the input line; the deal pops from the end.
DeckList ==
  << \* every kind of move, a deck flip and a king to an empty column
     << C("A","D"), C("Q","S"), C("2","S"), C("2","D"), C("K","H"), C("A","S"),
        C("K","D") >>,
     \* searched without end with a cache of one to three states
     << C("K","D"), C("Q","H"), C("A","H"), C("J","S"), C("K","H"), C("Q","S") >>,
     \* won with a cache of two states or more, lost with two columns
     << C("J","S"), C("K","S"), C("Q","H"), C("A","H"), C("K","H"), C("A","D"),
        C("Q","D") >>,
     \* won by drawing and playing from the waste
     << C("Q","S"), C("2","H"), C("Q","D"), C("J","S"), C("K","S"), C("A","D"),
        C("K","H"), C("A","H") >> >>

PlayDecks == {DeckList[i] : i \in 1..NumPlayDecks}

TableauSizes == 2..MaxTableauSize

\* The (rules, deck) pairs a game can be dealt from: the deal needs
\* tableauSize * (tableauSize + 1) / 2 cards.
Deals(decks) ==
  {in \in [rules : {Rules(d, t) : d \in 1..MaxDrawSize, t \in TableauSizes},
           deck : decks] :
     in.rules.tableauSize * (in.rules.tableauSize + 1) <= 2 * Len(in.deck)}

\* The moves tried on a game: every move whose indices are in range (a
\* tableau-to-tableau move from a column onto itself included), and the
\* moves that isValid must refuse for their shape alone: no move type, too
\* few extras, one index just outside its range.
MoveInputs(g) ==
  LET n == Len(g.tableau)
      cols == 0..(n - 1)
      rows == 0..(MaxFaceUp(g) - 1)
      suits == 0..(Len(SUITS) - 1)
      out == {-1, n}
  IN {Move(t, <<>>) : t \in 0..7}
     \cup {Move(t, <<c>>) : t \in {WASTE_TO_TABLEAU, TABLEAU_TO_FOUNDATION},
                            c \in cols \cup out}
     \cup {Move(TABLEAU_TO_TABLEAU, <<c, r, d>>) : c \in cols, r \in rows, d \in cols}
     \cup {Move(TABLEAU_TO_TABLEAU, <<c, 0, 0>>) : c \in out}
     \cup {Move(TABLEAU_TO_TABLEAU, <<0, 0, d>>) : d \in out}
     \cup UNION {{Move(TABLEAU_TO_TABLEAU, <<c, r, 1>>) :
                    r \in {-1, Len(g.tableau[c + 1].faceUp)}} : c \in cols}
     \cup {Move(TABLEAU_TO_TABLEAU, <<0, 0>>), Move(FOUNDATION_TO_TABLEAU, <<0>>)}
     \cup {Move(FOUNDATION_TO_TABLEAU, <<s, d>>) : s \in suits, d \in cols}
     \cup {Move(FOUNDATION_TO_TABLEAU, <<s, 0>>) : s \in {-1, Len(SUITS)}}
     \cup {Move(FOUNDATION_TO_TABLEAU, <<0, d>>) : d \in out}

\* ------------------------------------------------------------------------
\* Calls and the state they leave
\* ------------------------------------------------------------------------

Called(op, on, type, ret) == [op |-> op, on |-> on, type |-> type, ret |-> ret]

Roots == IF otherRef = 0 THEN <<gameRef>> ELSE <<gameRef, otherRef>>

Receiver(on) == IF on = "game" THEN gameRef ELSE otherRef

\* The objects a method can be called on
Receivers == IF otherRef = 0 THEN {"game"} ELSE {"game", "other"}

\* What a call of getWinningMoves has returned: nothing yet, null, or a list
NoValue == [kind |-> "none", moves |-> <<>>]
Null == [kind |-> "null", moves |-> <<>>]
MoveList(moves) == [kind |-> "moves", moves |-> moves]

\* The steps of the solver, and how often each has been taken
Steps ==
  {"EnterTimeout", "EnterWon", "EnterPruned", "EnterExpand", "SkipDraw",
   "SkipStack", "Descend", "Exhausted", "ReturnWin", "ReturnFail"}

\* The driver before it has made a solver
NoDriver == [status |-> "none", winningMoves |-> NoValue, i |-> 0,
             invalidAt |-> -1]

\* The keys has and add are called with by hand
Keys == {toString(i) : i \in 1..NumKeys}

\* No call has been made on the cache: no key has been touched (recent
\* lists the keys touched, the one touched longest ago first), and of no key
\* is it known which keys were added after it (since)
NoHistory ==
  [recent |-> <<>>, since |-> [k \in Keys |-> [added |-> FALSE, later |-> {}]]]

\* game = new Solitaire(rules, deck)
Deal(in) ==
  LET made == NewSolitaire(<<>>, Solitaire(in.rules, in.deck))
  IN /\ history = NoHistory
     /\ inputDeck = in.deck
     /\ heap = made.heap
     /\ gameRef = made.ref
     /\ otherRef = 0
     /\ last = Called("new", "game", 0, FALSE)

\* No solver has been made
Unsolved ==
  /\ solver = <<>>
  /\ seenCardStacks = {}
  /\ stack = <<>>
  /\ returned = NoValue
  /\ now = 0
  /\ driver = NoDriver
  /\ fired = [s \in Steps |-> 0]

\* ------------------------------------------------------------------------
\* Specification Spec: a game is dealt, then isValid is called on it with
\* any move, any valid move is applied to it, and its id is taken
\* ------------------------------------------------------------------------

Init == \E in \in Deals(PlayDecks) : Deal(in) /\ Unsolved

\* ret = receiver.isValid(move)
IsValid(on, move) ==
  /\ LET call == isValidCall(heap, Receiver(on), move)
     IN /\ heap' = call.heap
        /\ last' = Called("isValid", on, 0, call.ret)
  /\ UNCHANGED <<history, inputDeck, gameRef, otherRef>>
  /\ UNCHANGED solverVars

\* if (receiver.isValid(move)) receiver.applyMove(move)
ApplyMove(on, move) ==
  /\ LET call == isValidCall(heap, Receiver(on), move)
     IN /\ call.ret
        /\ heap' = Canon(applyMove(call.heap, Receiver(on), move), Roots).heap
        /\ last' = Called("applyMove", on, move.type, TRUE)
  /\ UNCHANGED <<history, inputDeck, gameRef, otherRef>>
  /\ UNCHANGED solverVars

\* ret = getGameStateId(game, canFlipDeck)
GetGameStateId(canFlipDeck) ==
  /\ last' = Called("getGameStateId", "game", canFlipDeck,
                    getGameStateId(View(heap, gameRef), canFlipDeck))
  /\ UNCHANGED <<history, inputDeck, heap, gameRef, otherRef>>
  /\ UNCHANGED solverVars

Next ==
  \/ \E move \in MoveInputs(View(heap, gameRef)) : IsValid("game", move)
  \/ \E move \in MoveInputs(View(heap, gameRef)) : ApplyMove("game", move)
  \/ \E canFlipDeck \in BOOLEAN : GetGameStateId(canFlipDeck)

Spec == Init /\ [][Next]_vars

\* ------------------------------------------------------------------------
\* Specification SpecClone: a game is dealt and played, cloned once, and
\* then any valid moves are applied to the game and to its clone
\* ------------------------------------------------------------------------

CloneDecks == {DeckList[i] : i \in 1..NumCloneDecks}

InitClone == \E in \in Deals(CloneDecks) : Deal(in) /\ Unsolved

\* other = game.clone()
Clone ==
  /\ otherRef = 0
  /\ LET made == clone(heap, gameRef)
         canon == Canon(made.heap, <<gameRef, made.ref>>)
     IN /\ heap' = canon.heap
        /\ otherRef' = canon.roots[2]
  /\ last' = Called("clone", "game", 0, FALSE)
  /\ UNCHANGED <<history, inputDeck, gameRef>>
  /\ UNCHANGED solverVars

NextClone ==
  \/ Clone
  \/ \E on \in Receivers :
       \E move \in MoveInputs(View(heap, Receiver(on))) : ApplyMove(on, move)

SpecClone == InitClone /\ [][NextClone]_vars

\* ------------------------------------------------------------------------
\* The solver's search (solve.js, getWinningMoves and maybeApplyMove) as a
\* stack of calls of getWinningMoves
\* ------------------------------------------------------------------------
\* A frame of the stack is one call of getWinningMoves: the address of its
\* game, its canFlipDeck and depth, where it stands (pc: "entry" before the
\* first line, "loop" between two moves, "called" inside maybeApplyMove
\* waiting for the call it made), the moves it enumerates and the index i of
\* the move it is at, the newStacks of the maybeApplyMove it is in, the size
\* the heap had before its game was cloned (base), and what the search
\* depended on when it was entered (entered).

\* What the rest of the search depends on besides the game and canFlipDeck
Entered(seen, s) ==
  [seenCardStacks |-> seen,
   stateCache |-> s.stateCache.cache,
   tableauRevealingMoveCache |-> s.tableauRevealingMoveCache,
   tableauNonrevealingMoveCache |-> s.tableauNonrevealingMoveCache]

Frame(game, canFlipDeck, depth, base, entered) ==
  [game |-> game, canFlipDeck |-> canFlipDeck, depth |-> depth, pc |-> "entry",
   moves |-> <<>>, i |-> 0, newStacks |-> <<>>, base |-> base,
   entered |-> entered]

Top == stack[Len(stack)]

\* The call on top of the stack stands at pc
At(pc) == driver.status = "solving" /\ stack # <<>> /\ Top.pc = pc

\* The game of the call on top of the stack
TopGame == View(heap, Top.game)

\* The move the loop of lines 319-327 is at
CurrentMove == Top.moves[Top.i + 1]

\* this.timeout < Date.now() - this.startTimestamp (lines 286-287)
TimedOut == solver.timeout < now - solver.startTimestamp

\* One more step of the kind taken
Fire(step) ==
  /\ fired' = [fired EXCEPT ![step] = @ + 1]
  /\ last' = Called(step, "solver", 0, FALSE)

\* The call on top of the stack returns value: its frame is popped and the
\* objects made since its game was cloned are unreachable
Return(value) ==
  /\ stack' = ButLast(stack)
  /\ returned' = value
  /\ heap' = SubSeq(heap, 1, Top.base)

\* The loop goes on with the next move
NextMove == stack' = [stack EXCEPT ![Len(stack)] =
                        [@ EXCEPT !.pc = "loop", !.i = @ + 1, !.newStacks = <<>>]]

\* unshift that forgets the move
unshiftNothing(list, move) == list

\* remainingMoves.unshift(move)
unshift(list, move) == <<move>> \o list

\* A move applied to the game itself
clonedGameInPlace(h, g, move) == [ref |-> g, heap |-> applyMove(h, g, move)]

\* clonedGame = game.clone(); clonedGame.applyMove(move) (lines 247-248)
clonedGame(h, g, move) ==
  LET made == clone(h, g)
  IN [ref |-> made.ref, heap |-> applyMove(made.heap, made.ref, move)]

\* A guard that lets every draw through
drawBlockedNever(move, game, canFlipDeck) == FALSE

\* Lines 234-241: the draw would flip the deck and the deck may not be flipped
drawBlocked(move, game, canFlipDeck) ==
  move.type = DRAW /\ Len(game.hand) = 0 /\ ~canFlipDeck

\* canFlipDeck that a deck flip leaves as it was
canFlipDeckKept(move, game, canFlipDeck) ==
  IF move.type = WASTE_TO_FOUNDATION \/ move.type = WASTE_TO_TABLEAU
  THEN TRUE
  ELSE canFlipDeck

\* canFlipDeck after lines 234-245
canFlipDeckAfter(move, game, canFlipDeck) ==
  IF move.type = DRAW
  THEN IF Len(game.hand) = 0 THEN FALSE ELSE canFlipDeck
  ELSE IF move.type = WASTE_TO_FOUNDATION \/ move.type = WASTE_TO_TABLEAU
       THEN TRUE
       ELSE canFlipDeck

\* newStacks of lines 250-259, read from the cloned game after the move
newStacksOf(move, cloned) ==
  IF move.type = TABLEAU_TO_TABLEAU
  THEN << join(cloned.tableau[move.extras[1] + 1].faceUp, <<>>),
          join(cloned.tableau[move.extras[3] + 1].faceUp, <<>>) >>
  ELSE <<>>

\* The guard of an earlier version: one of the stacks has been seen
stackBlockedByEither(seen, newStacks) ==
  newStacks # <<>> /\ (newStacks[1] \in seen \/ newStacks[2] \in seen)

\* Line 254: both stacks have been seen
stackBlocked(seen, newStacks) ==
  newStacks # <<>> /\ newStacks[1] \in seen /\ newStacks[2] \in seen

\* The cloned game of the move the loop is at, and its newStacks
Cloned == clonedGame(heap, Top.game, CurrentMove)
ClonedStacks == newStacksOf(CurrentMove, View(Cloned.heap, Cloned.ref))

\* winningMoves = solver.getWinningMoves() is called (driver, line 25)
Solve ==
  /\ driver.status = "ready"
  /\ driver' = [driver EXCEPT !.status = "solving"]
  /\ seenCardStacks' = {}
  /\ stack' = <<Frame(solver.game, FALSE, 0, Len(heap), Entered({}, solver))>>
  /\ last' = Called("getWinningMoves", "solver", 0, FALSE)
  /\ UNCHANGED <<history, inputDeck, heap, gameRef, otherRef, solver, returned, now, fired>>

\* A timeout that returns null and leaves didTimeout as it was
EnterTimeoutSilent ==
  /\ At("entry")
  /\ TimedOut
  /\ Return(Null)
  /\ Fire("EnterTimeout")
  /\ UNCHANGED <<history, inputDeck, gameRef, otherRef, solver, seenCardStacks, now, driver>>

\* Lines 286-290
EnterTimeout ==
  /\ At("entry")
  /\ TimedOut
  /\ solver' = [solver EXCEPT !.didTimeout = TRUE]
  /\ Return(Null)
  /\ Fire("EnterTimeout")
  /\ UNCHANGED <<history, inputDeck, gameRef, otherRef, seenCardStacks, now, driver>>

\* Lines 293-295
EnterWon ==
  /\ At("entry")
  /\ ~TimedOut
  /\ isWon(TopGame)
  /\ Return(MoveList(<<>>))
  /\ Fire("EnterWon")
  /\ UNCHANGED <<history, inputDeck, gameRef, otherRef, solver, seenCardStacks, now, driver>>

\* A prune that counts the call before it returns
EnterPrunedCounted ==
  /\ At("entry")
  /\ ~TimedOut
  /\ ~isWon(TopGame)
  /\ LET seen == has(solver.stateCache, getGameStateId(TopGame, Top.canFlipDeck))
     IN /\ seen.ret
        /\ solver' = [solver EXCEPT !.stateCache = seen.cache, !.calls = @ + 1]
  /\ Return(Null)
  /\ Fire("EnterPruned")
  /\ UNCHANGED <<history, inputDeck, gameRef, otherRef, seenCardStacks, now, driver>>

\* Lines 298-301: the state has been seen before
EnterPruned ==
  /\ At("entry")
  /\ ~TimedOut
  /\ ~isWon(TopGame)
  /\ LET seen == has(solver.stateCache, getGameStateId(TopGame, Top.canFlipDeck))
     IN /\ seen.ret
        /\ solver' = [solver EXCEPT !.stateCache = seen.cache]
  /\ Return(Null)
  /\ Fire("EnterPruned")
  /\ UNCHANGED <<history, inputDeck, gameRef, otherRef, seenCardStacks, now, driver>>

\* Lines 298-318: the state is new, it is added to the cache and its moves
\* are enumerated
EnterExpand ==
  /\ At("entry")
  /\ ~TimedOut
  /\ ~isWon(TopGame)
  /\ LET gameStateId == getGameStateId(TopGame, Top.canFlipDeck)
         seen == has(solver.stateCache, gameStateId)
         counted == [solver EXCEPT !.stateCache = add(seen.cache, gameStateId),
                                   !.calls = @ + 1]
         valid == getValidMoves(counted, TopGame)
     IN /\ ~seen.ret
        /\ solver' = valid.solver
        /\ stack' = [stack EXCEPT ![Len(stack)] =
                       [@ EXCEPT !.pc = "loop", !.moves = valid.ret, !.i = 0]]
  /\ Fire("EnterExpand")
  /\ UNCHANGED <<history, inputDeck, heap, gameRef, otherRef, seenCardStacks, returned,
                 now, driver>>

\* Lines 234-240: maybeApplyMove returns null for a draw that would flip
\* the deck when it may not be flipped
SkipDraw ==
  /\ At("loop")
  /\ Top.i < Len(Top.moves)
  /\ drawBlocked(CurrentMove, TopGame, Top.canFlipDeck)
  /\ NextMove
  /\ Fire("SkipDraw")
  /\ UNCHANGED <<history, inputDeck, heap, gameRef, otherRef, solver, seenCardStacks,
                 returned, now, driver>>

\* Lines 247-256: maybeApplyMove returns null for a tableau move that makes
\* two stacks seen before; the cloned game is dropped
SkipStack ==
  /\ At("loop")
  /\ Top.i < Len(Top.moves)
  /\ ~drawBlocked(CurrentMove, TopGame, Top.canFlipDeck)
  /\ stackBlocked(seenCardStacks, ClonedStacks)
  /\ NextMove
  /\ Fire("SkipStack")
  /\ UNCHANGED <<history, inputDeck, heap, gameRef, otherRef, solver, seenCardStacks,
                 returned, now, driver>>

\* Lines 247-265: the move is applied to a clone, its stacks are added to
\* seenCardStacks and getWinningMoves is called on the clone
Descend ==
  /\ At("loop")
  /\ Top.i < Len(Top.moves)
  /\ ~drawBlocked(CurrentMove, TopGame, Top.canFlipDeck)
  /\ ~stackBlocked(seenCardStacks, ClonedStacks)
  /\ Len(stack) < MaxDepth
  /\ LET seen == seenCardStacks \cup Range(ClonedStacks)
     IN /\ seenCardStacks' = seen
        /\ heap' = Cloned.heap
        /\ stack' = Append(
             [stack EXCEPT ![Len(stack)] =
                [@ EXCEPT !.pc = "called", !.newStacks = ClonedStacks]],
             Frame(Cloned.ref,
                   canFlipDeckAfter(CurrentMove, TopGame, Top.canFlipDeck),
                   Top.depth + 1, Len(heap), Entered(seen, solver)))
  /\ Fire("Descend")
  /\ UNCHANGED <<history, inputDeck, gameRef, otherRef, solver, returned, now, driver>>

\* The call of line 264 finds no room on the call stack of the engine: a
\* RangeError is thrown, nothing catches it, and the program ends
Overflow ==
  /\ At("loop")
  /\ Top.i < Len(Top.moves)
  /\ ~drawBlocked(CurrentMove, TopGame, Top.canFlipDeck)
  /\ ~stackBlocked(seenCardStacks, ClonedStacks)
  /\ Len(stack) >= MaxDepth
  /\ stack' = <<>>
  /\ heap' = SubSeq(heap, 1, stack[1].base)
  /\ driver' = [driver EXCEPT !.status = "RangeError"]
  /\ last' = Called("RangeError", "solver", 0, FALSE)
  /\ UNCHANGED <<history, inputDeck, gameRef, otherRef, solver, seenCardStacks, returned,
                 now, fired>>

\* Line 328: no move is left
Exhausted ==
  /\ At("loop")
  /\ Top.i >= Len(Top.moves)
  /\ Return(Null)
  /\ Fire("Exhausted")
  /\ UNCHANGED <<history, inputDeck, gameRef, otherRef, solver, seenCardStacks, now, driver>>

\* Lines 266-268 and 323-326: the call made returned a list; the move is
\* put in front of it and the list is returned
ReturnWin ==
  /\ At("called")
  /\ returned.kind = "moves"
  /\ Return(MoveList(unshift(returned.moves, CurrentMove)))
  /\ Fire("ReturnWin")
  /\ UNCHANGED <<history, inputDeck, gameRef, otherRef, solver, seenCardStacks, now, driver>>

\* Lines 269-273: the call made returned null; the newStacks are deleted
\* from seenCardStacks and the loop goes on
ReturnFail ==
  /\ At("called")
  /\ returned.kind = "null"
  /\ seenCardStacks' = seenCardStacks \ Range(Top.newStacks)
  /\ NextMove
  /\ returned' = NoValue
  /\ Fire("ReturnFail")
  /\ UNCHANGED <<history, inputDeck, heap, gameRef, otherRef, solver, now, driver>>


\* A driver that takes every null for "No solution."
FinishWithoutTimeout ==
  /\ driver.status = "solving"
  /\ stack = <<>>
  /\ returned.kind # "none"
  /\ driver' = [driver EXCEPT
       !.winningMoves = returned,
       !.status = IF returned.kind = "moves" THEN "win" ELSE "lose"]
  /\ last' = Called("status", "driver", 0, FALSE)
  /\ UNCHANGED <<history, inputDeck, heap, gameRef, otherRef, solver, seenCardStacks,
                 stack, returned, now, fired>>

\* The driver, lines 26-49: the status of the result
Finish ==
  /\ driver.status = "solving"
  /\ stack = <<>>
  /\ returned.kind # "none"
  /\ driver' = [driver EXCEPT
       !.winningMoves = returned,
       !.status = IF returned.kind = "moves" THEN "win"
                  ELSE IF solver.didTimeout THEN "timeout" ELSE "lose"]
  /\ last' = Called("status", "driver", 0, FALSE)
  /\ UNCHANGED <<history, inputDeck, heap, gameRef, otherRef, solver, seenCardStacks,
                 stack, returned, now, fired>>

\* The driver, lines 29-40: the next winning move is checked with isValid
\* and applied to the game; an invalid move ends the loop
Replay ==
  /\ driver.status = "win"
  /\ driver.invalidAt < 0
  /\ driver.i < Len(driver.winningMoves.moves)
  /\ LET move == driver.winningMoves.moves[driver.i + 1]
         call == isValidCall(heap, gameRef, move)
     IN IF call.ret
        THEN /\ heap' = Canon(applyMove(call.heap, gameRef, move), Roots).heap
             /\ driver' = [driver EXCEPT !.i = @ + 1]
             /\ last' = Called("applyMove", "game", move.type, TRUE)
        ELSE /\ heap' = call.heap
             /\ driver' = [driver EXCEPT !.invalidAt = driver.i]
             /\ last' = Called("isValid", "game", move.type, FALSE)
  /\ UNCHANGED <<history, inputDeck, gameRef, otherRef, solver, seenCardStacks, stack,
                 returned, now, fired>>

\* After "No solution." the game is played by hand: any valid move that is
\* not a move from the foundation to the tableau
Play(move) ==
  /\ driver.status = "lose"
  /\ move.type # FOUNDATION_TO_TABLEAU
  /\ ApplyMove("game", move)

\* Date.now() moves on while the solver runs, a second at a time, until the
\* timeout has passed
Tick ==
  /\ driver.status = "solving"
  /\ ~TimedOut
  /\ now' = now + MsPerSecond
  /\ UNCHANGED <<history, inputDeck, heap, gameRef, otherRef, last, solver,
                 seenCardStacks, stack, returned, driver, fired>>

\* The steps of getWinningMoves other than the timeout
Search ==
  \/ EnterWon
  \/ EnterPruned
  \/ EnterExpand
  \/ SkipDraw
  \/ SkipStack
  \/ Descend
  \/ Overflow
  \/ Exhausted
  \/ ReturnWin
  \/ ReturnFail

\* ------------------------------------------------------------------------
\* Specification SpecSolve: the driver deals a game, makes a solver and
\* solves the game in less time than the timeout; a winning list is
\* replayed on the game, and a game without solution is played by hand
\* ------------------------------------------------------------------------

\* A deck that is never won, on which a list of moves is cached for a
\* tableau and read again when the columns have fewer face-down cards
CachedOrderDeck ==
  << C("J","H"), C("A","D"), C("2","D"), C("K","S"), C("3","D"), C("A","S"),
     C("Q","H") >>

SolveDecks == {DeckList[i] : i \in 1..NumSolveDecks} \cup {CachedOrderDeck}

\* The capacities of the state cache: the small ones and the default
CacheSizes == (1..MaxCacheSize) \cup {DefaultCacheSize}

\* solver = new Solver(game, timeoutSeconds * 1000, cacheSize)
NewSolver(timeoutSeconds, cacheSize) ==
  /\ solver = Solver(gameRef, timeoutSeconds * MsPerSecond, cacheSize, 0)
  /\ seenCardStacks = {}
  /\ stack = <<>>
  /\ returned = NoValue
  /\ now = 0
  /\ driver = [NoDriver EXCEPT !.status = "ready"]
  /\ fired = [s \in Steps |-> 0]

InitSolve ==
  \E in \in Deals(SolveDecks), cacheSize \in CacheSizes :
    Deal(in) /\ NewSolver(DefaultTimeoutSeconds, cacheSize)

NextSolve ==
  \/ Solve
  \/ Search
  \/ Finish
  \/ Replay
  \/ \E move \in MoveInputs(View(heap, gameRef)) : Play(move)

SpecSolve == InitSolve /\ [][NextSolve]_vars

\* ------------------------------------------------------------------------
\* Specification SpecTimeout: the same with a short timeout and a clock
\* that moves on during the search
\* ------------------------------------------------------------------------

\* The decks after the first, whose searches are the shorter ones
TimeoutDecks == {DeckList[i + 1] : i \in 1..NumTimeoutDecks}

InitTimeout ==
  \E in \in Deals(TimeoutDecks), cacheSize \in CacheSizes,
     timeoutSeconds \in 0..MaxTimeoutSeconds :
    Deal(in) /\ NewSolver(timeoutSeconds, cacheSize)

NextTimeout ==
  \/ Solve
  \/ Tick
  \/ EnterTimeout
  \/ Search
  \/ Finish

SpecTimeout == InitTimeout /\ [][NextTimeout]_vars


\* ------------------------------------------------------------------------
\* Specification SpecDriver: the handler of one input line as the driver
\* runs it, with the default state cache: the game is dealt and solved with
\* a clock, a winning list is replayed, and the result is written
\* ------------------------------------------------------------------------

\* The handler has come to line 51: the replay of a winning list has ended
\* or has met an invalid move, or there is no list
Decided ==
  \/ /\ driver.status = "win"
     /\ \/ driver.invalidAt >= 0
        \/ driver.i = Len(driver.winningMoves.moves)
  \/ driver.status \in {"timeout", "lose"}

\* The object of lines 51-59, without the times and the version
result ==
  [deck |-> inputDeck,
   status |-> driver.status,
   winningMoves |-> driver.winningMoves,
   movesConsidered |-> solver.calls]

\* console.log(JSON.stringify(result)) (line 60), the end of the handler
Emit ==
  /\ Decided
  /\ last' = Called("log", "console", 0, result)
  /\ driver' = [driver EXCEPT !.status = "done"]
  /\ UNCHANGED <<history, inputDeck, heap, gameRef, otherRef, solver, seenCardStacks,
                 stack, returned, now, fired>>

InitDriver ==
  \E in \in Deals(TimeoutDecks), timeoutSeconds \in 0..MaxTimeoutSeconds :
    Deal(in) /\ NewSolver(timeoutSeconds, DefaultCacheSize)

NextDriver ==
  \/ Solve
  \/ Tick
  \/ EnterTimeout
  \/ EnterWon
  \/ EnterPruned
  \/ EnterExpand
  \/ SkipDraw
  \/ SkipStack
  \/ Descend
  \/ Exhausted
  \/ ReturnWin
  \/ ReturnFail
  \/ Finish
  \/ Replay
  \/ Emit

SpecDriver == InitDriver /\ [][NextDriver]_vars

\* ------------------------------------------------------------------------
\* Specification SpecLRU: has and add are called in any order, with any of
\* the keys, on the state cache of a solver that is not searching
\* ------------------------------------------------------------------------

InitLRU ==
  \E maxSize \in 1..MaxSize :
    /\ inputDeck = <<>>
    /\ heap = <<>>
    /\ gameRef = 0
    /\ otherRef = 0
    /\ last = Called("new", "cache", <<>>, FALSE)
    /\ solver = Solver(0, 0, maxSize, 0)
    /\ seenCardStacks = {}
    /\ stack = <<>>
    /\ returned = NoValue
    /\ now = 0
    /\ driver = NoDriver
    /\ fired = [s \in Steps |-> 0]
    /\ history = NoHistory

\* ret = stateCache.has(key)
Has(key) ==
  /\ LET call == has(solver.stateCache, key)
     IN /\ solver' = [solver EXCEPT !.stateCache = call.cache]
        /\ last' = Called("has", "cache", key, call.ret)
        /\ history' = [recent |-> IF call.ret
                                  THEN Append(delete(history.recent, key), key)
                                  ELSE history.recent,
                       since |-> [history.since EXCEPT
                                    ![key] = [added |-> FALSE, later |-> {}]]]
  /\ UNCHANGED <<inputDeck, heap, gameRef, otherRef, seenCardStacks, stack,
                 returned, now, driver, fired>>

\* stateCache.add(key)
Add(key) ==
  /\ solver' = [solver EXCEPT !.stateCache = add(@, key)]
  /\ last' = Called("add", "cache", key, FALSE)
  /\ history' =
       [recent |-> Append(delete(history.recent, key), key),
        since |-> [k \in Keys |->
                    IF k = key THEN [added |-> TRUE, later |-> {}]
                    ELSE [history.since[k] EXCEPT
                            !.later = IF history.since[k].added
                                      THEN @ \cup {key} ELSE @]]]
  /\ UNCHANGED <<inputDeck, heap, gameRef, otherRef, seenCardStacks, stack,
                 returned, now, driver, fired>>

NextLRU ==
  \/ \E key \in Keys : Has(key)
  \/ \E key \in Keys : Add(key)

SpecLRU == InitLRU /\ [][NextLRU]_vars


\* ------------------------------------------------------------------------
\* Specification SpecWon: a game is dealt from a deck that holds, of every
\* suit, the cards from the ace up to some value; any valid moves are applied
\* to it and isWon is called on it
\* ------------------------------------------------------------------------

WonDeckList ==
  << << C("A","S"), C("2","S"), C("A","H"), C("2","H"), C("3","H"), C("3","S") >>,
     << C("2","D"), C("A","S"), C("A","D"), C("3","D"), C("2","S"), C("A","H"),
        C("2","H") >>,
     << C("3","S"), C("A","H"), C("2","S"), C("2","H"), C("A","S"), C("3","H"),
        C("4","S") >> >>

WonDecks == {WonDeckList[i] : i \in 1..NumWonDecks}

InitWon == \E in \in Deals(WonDecks) : Deal(in) /\ Unsolved

\* ret = game.isWon()
IsWon ==
  /\ last' = Called("isWon", "game", 0, isWon(View(heap, gameRef)))
  /\ UNCHANGED <<history, inputDeck, heap, gameRef, otherRef>>
  /\ UNCHANGED solverVars

NextWon ==
  \/ \E move \in MoveInputs(View(heap, gameRef)) : ApplyMove("game", move)
  \/ IsWon

SpecWon == InitWon /\ [][NextWon]_vars

\* ------------------------------------------------------------------------
\* Properties of the game (Spec, SpecClone)
\* ------------------------------------------------------------------------

\* The game the program plays on
Game == View(heap, gameRef)

\* The cards the foundation heights stand for: values 0..foundation[s] of
\* every suit s
FoundationCards(g) ==
  Flatten([s \in 1..Len(SUITS) |->
    [i \in 1..(g.foundation[SUITS[s]] + 1) |-> CardOf(i - 1, SUITS[s])]])

AllCards(g) ==
  g.hand \o g.waste
  \o Flatten([i \in 1..Len(g.tableau) |-> g.tableau[i].faceDown])
  \o Flatten([i \in 1..Len(g.tableau) |-> g.tableau[i].faceUp])
  \o FoundationCards(g)

\* C4: after construction and after any sequence of valid moves of the six
\* kinds, the cards of the hand, the waste, the face-down and face-up stacks
\* and the cards the foundation heights stand for are exactly the cards of
\* the deck, each once, and every foundation height is within -1..12.
C4_CardsConserved ==
  /\ Len(AllCards(Game)) = Len(inputDeck)
  /\ Range(AllCards(Game)) = Range(inputDeck)
  /\ \A s \in Range(SUITS) : Game.foundation[s] \in -1..(Len(VALUES) - 1)

\* A card has gone back from the foundation to the tableau
C4_Witness ==
  /\ last.op = "applyMove"
  /\ last.type = FOUNDATION_TO_TABLEAU
  /\ \E i \in 1..Len(Game.tableau) : Len(Game.tableau[i].faceUp) >= 2

\* C5: in every column every face-up card after the first is one value
\* lower than the card beneath it and of the opposite colour.
C5_FaceUpDescending ==
  \A i \in 1..Len(Game.tableau) :
    LET up == Game.tableau[i].faceUp
    IN \A k \in 2..Len(up) :
         /\ indexOf(VALUES, getValue(up[k])) = indexOf(VALUES, getValue(up[k - 1])) - 1
         /\ isBlack(up[k]) # isBlack(up[k - 1])

\* A stack has been moved onto another column and a column holds two
\* face-up cards
C5_Witness ==
  /\ last.op = "applyMove"
  /\ last.type = TABLEAU_TO_TABLEAU
  /\ \E i \in 1..Len(Game.tableau) : Len(Game.tableau[i].faceUp) >= 2

\* C6: a call of isValid, whatever the move and whatever it returns, leaves
\* the hand, the waste, the foundation and every column as they were.
C6_IsValidPure ==
  [][last'.op = "isValid" => View(heap', gameRef') = View(heap, gameRef)]_vars

\* isValid has refused a move on a game that has cards on its waste and on
\* its foundation
C6_Witness ==
  /\ last.op = "isValid"
  /\ ~last.ret
  /\ Len(Game.waste) > 0
  /\ \E s \in Range(SUITS) : Game.foundation[s] >= 0

\* C7: the clone equals the game it was made from, a move applied to the
\* clone leaves the game unchanged, and a move applied to the game leaves
\* the clone unchanged.
C7_CloneIndependent ==
  [][/\ last'.op = "clone" =>
          /\ View(heap', otherRef') = View(heap, gameRef)
          /\ View(heap', gameRef') = View(heap, gameRef)
     /\ (otherRef # 0 /\ last'.op = "applyMove" /\ last'.on = "other") =>
          View(heap', gameRef') = View(heap, gameRef)
     /\ (otherRef # 0 /\ last'.op = "applyMove" /\ last'.on = "game") =>
          View(heap', otherRef') = View(heap, otherRef)]_vars

\* A stack has been moved on the clone, and the game has moved on too
C7_Witness ==
  /\ otherRef # 0
  /\ last.op = "applyMove"
  /\ last.on = "other"
  /\ last.type = TABLEAU_TO_TABLEAU
  /\ View(heap, otherRef).tableau # Game.tableau
  /\ View(heap, otherRef).waste # Game.waste

\* ------------------------------------------------------------------------
\* Properties of the solver (SpecSolve, SpecTimeout) and of the state id
\* ------------------------------------------------------------------------

\* The game as the driver dealt it
Dealt == Solitaire(Game.rules, inputDeck)

\* C1: when getWinningMoves returns a list, the replay of the list on the
\* game it was dealt finds isValid true before every applyMove, and after the
\* last move isWon is true.
C1_SolverSound ==
  driver.status = "win" =>
    /\ driver.invalidAt < 0
    /\ driver.i = Len(driver.winningMoves.moves) => isWon(Game)

\* A list of three moves or more has been replayed to its end
C1_Witness ==
  /\ driver.status = "win"
  /\ Len(driver.winningMoves.moves) >= 3
  /\ driver.i = Len(driver.winningMoves.moves)
  /\ last.op = "applyMove"

Configuration(frame) ==
  <<View(heap, frame.game), frame.canFlipDeck, frame.entered>>

\* C3: the search has no infinite descent: no call of getWinningMoves is
\* entered with the game, canFlipDeck, seenCardStacks, state cache and move
\* caches that a call it is nested in was entered with (the search is
\* deterministic, so such a call would make the same calls again, without end).
C3_NoInfiniteDescent ==
  \A i, j \in 1..Len(stack) :
    i < j => Configuration(stack[i]) # Configuration(stack[j])

\* C8: during and after getWinningMoves, whatever it returns, the game given
\* to the solver has the hand, waste, foundation and tableau it was dealt.
C8_InputGameUntouched ==
  driver.status \in {"solving", "win", "lose", "timeout"} => Game = Dealt

\* The search has applied moves to clones, gone back, and ended
C8_Witness ==
  /\ driver.status \in {"win", "lose", "timeout"}
  /\ fired["Descend"] >= 3
  /\ fired["ReturnFail"] >= 1
  /\ solver.game = gameRef

\* The caches and counters a call that enumerates moves writes to
Written(s) ==
  <<s.stateCache, s.calls, s.tableauRevealingMoveCache,
    s.tableauNonrevealingMoveCache, s.tableauCacheHit, s.tableauCacheMiss>>

\* C9: a call of getWinningMoves entered after the timeout sets didTimeout
\* and returns null; once didTimeout is set it stays set, every call entered
\* returns null, no moves are enumerated and nothing is put into the state
\* cache, and the result of the search is null, never a list of moves.
C9_TimeoutYieldsFailure ==
  [][/\ (At("entry") /\ TimedOut /\ stack' # stack) =>
          /\ solver'.didTimeout
          /\ returned' = Null
          /\ stack' = ButLast(stack)
          /\ Written(solver') = Written(solver)
     /\ solver.didTimeout =>
          /\ solver'.didTimeout
          /\ Written(solver') = Written(solver)
          /\ returned'.kind # "moves"
          /\ (At("entry") /\ stack' # stack) => returned' = Null
          /\ driver'.status \in {"solving", "timeout"}
          /\ driver'.status = "timeout" => driver'.winningMoves = Null]_vars

\* The search has timed out after it had expanded two states, more than one
\* call has been entered after the timeout, and the driver has its result
C9_Witness ==
  /\ driver.status = "timeout"
  /\ solver.calls >= 2
  /\ fired["EnterTimeout"] >= 2
  /\ driver.winningMoves = Null

\* The orders the columns 1..n can be put in
ColumnOrders(n) ==
  {p \in [1..n -> 1..n] : \A i, j \in 1..n : i # j => p[i] # p[j]}

\* The game with its columns in the order p
Permuted(game, p) ==
  [game EXCEPT !.tableau = [i \in 1..Len(game.tableau) |-> game.tableau[p[i]]]]

\* The order p leaves every column that has face-down cards where it is
KeepsFaceDown(game, p) ==
  \A i \in 1..Len(game.tableau) :
    Len(game.tableau[i].faceDown) > 0 => p[i] = i

\* C10 as stated: a game whose columns are those of the game in another
\* order, face-down cards or not, has the id of the game.
C10_AnyColumnOrder ==
  last.op = "getGameStateId" =>
    \A p \in ColumnOrders(Len(Game.tableau)) :
      getGameStateId(Permuted(Game, p), last.type) = last.ret

\* C10: a game whose columns without face-down cards are those of the game
\* in another order, every column with face-down cards being where it is in
\* the game, has the id of the game for the same canFlipDeck.
C10_FaceUpColumnOrder ==
  last.op = "getGameStateId" =>
    \A p \in ColumnOrders(Len(Game.tableau)) :
      KeepsFaceDown(Game, p) =>
        getGameStateId(Permuted(Game, p), last.type) = last.ret

\* The id has been taken of a game that has a column with face-down cards
\* and two columns without, whose face-up stacks differ and are not in
\* the order of the sort
C10_Witness ==
  /\ last.op = "getGameStateId"
  /\ \E i \in 1..Len(Game.tableau) : Len(Game.tableau[i].faceDown) > 0
  /\ \E i, j \in 1..Len(Game.tableau) :
       /\ i < j
       /\ Len(Game.tableau[i].faceDown) = 0
       /\ Len(Game.tableau[j].faceDown) = 0
       /\ StringLess(join(Game.tableau[j].faceUp, <<>>),
                     join(Game.tableau[i].faceUp, <<>>))

\* ------------------------------------------------------------------------
\* Properties of the cache (SpecLRU)
\* ------------------------------------------------------------------------

\* The cache the calls are made on
Cache == solver.stateCache

\* The keys the cache holds
Held(c) == Range(c.cache)

\* C11: a has(k) right after a has(k) that returned true returns true; and
\* when add(k) has been followed by adds of maxSize different keys other
\* than k, with no has(k) or add(k) in between, has(k) returns false.
C11_HasTwiceAndEviction ==
  [][\A k \in Keys :
       (last'.op = "has" /\ last'.type = k) =>
         /\ (last.op = "has" /\ last.type = k /\ last.ret) => last'.ret
         /\ (/\ history.since[k].added
             /\ Cardinality(history.since[k].later) >= Cache.maxSize)
              => ~last'.ret]_vars

\* has(k) has returned false for a key that was added and then pushed out by
\* adds of maxSize other keys, in a cache of more than one key
C11_Witness ==
  /\ last.op = "has"
  /\ ~last.ret
  /\ Cache.maxSize >= 2
  /\ last.type \in Range(history.recent)
  /\ Len(history.recent) > Cache.maxSize

\* The key held by the cache that was touched longest ago
Oldest(c, recent) ==
  recent[CHOOSE i \in 1..Len(recent) :
           /\ recent[i] \in Held(c)
           /\ \A j \in 1..(i - 1) : recent[j] \notin Held(c)]

\* C12: an add of a key the cache does not hold, when the cache is full,
\* puts out the key whose last touch (an add, or a has that returned true)
\* is the oldest, and no other key.
C12_EvictsLeastRecent ==
  [][(/\ last'.op = "add"
      /\ last'.type \notin Held(Cache)
      /\ size(Cache) >= Cache.maxSize) =>
       Held(Cache') = (Held(Cache) \ {Oldest(Cache, history.recent)})
                        \cup {last'.type}]_vars

\* After add(a); add(b); has(a); add(c) on a cache of two keys: b was
\* touched before a, and the cache holds a and c
C12_Witness ==
  /\ last.op = "add"
  /\ Cache.maxSize = 2
  /\ Len(history.recent) = 3
  /\ Held(Cache) = {history.recent[2], history.recent[3]}
  /\ Cache.cache = <<history.recent[2], history.recent[3]>>
  /\ history.since[history.recent[2]] = [added |-> FALSE, later |-> {}]

\* C13: the cache never holds more than maxSize keys; an add of a key it
\* holds changes neither its size nor its keys; a has of a key it does not
\* hold changes nothing.
C13_SizeBound ==
  [][/\ size(Cache') <= Cache.maxSize
     /\ (last'.op = "add" /\ last'.type \in Held(Cache)) =>
          /\ size(Cache') = size(Cache)
          /\ Held(Cache') = Held(Cache)
     /\ (last'.op = "has" /\ last'.type \notin Held(Cache)) =>
          Cache' = Cache]_vars

\* A key the full cache holds, not the newest one, has been added again
C13_Witness ==
  /\ last.op = "add"
  /\ size(Cache) = Cache.maxSize
  /\ Cache.maxSize >= 2
  /\ Len(history.recent) > Cache.maxSize
  /\ history.since[last.type].later = {}
  /\ \E k \in Keys : k # last.type /\ last.type \in history.since[k].later

\* ------------------------------------------------------------------------
\* Properties of the search path (SpecSolve)
\* ------------------------------------------------------------------------

\* The move call j of the stack has applied: the move its loop is at while
\* it waits for the call it made
PathMove(j) == stack[j].moves[stack[j].i + 1]

\* Call j has applied a move and waits for call j + 1
Applied(j) == j \in 1..Len(stack) /\ stack[j].pc = "called"

\* The move of call j is a DRAW applied to an empty hand: it flips the deck
Flips(j) ==
  /\ Applied(j)
  /\ PathMove(j).type = DRAW
  /\ Len(View(heap, stack[j].game).hand) = 0

\* The move of call j plays the card on top of the waste
PlaysWaste(j) ==
  /\ Applied(j)
  /\ PathMove(j).type \in {WASTE_TO_FOUNDATION, WASTE_TO_TABLEAU}

\* C14: on the path from the root to the call entered last, every DRAW that
\* flips the deck comes after a WASTE_TO_FOUNDATION or WASTE_TO_TABLEAU move
\* with no other deck flip in between; so no deck is flipped before the
\* first play from the waste.
C14_FlipAfterWastePlay ==
  \A j \in 1..Len(stack) :
    Flips(j) =>
      \E i \in 1..(j - 1) :
        /\ PlaysWaste(i)
        /\ \A k \in (i + 1)..(j - 1) : ~Flips(k)

\* The path flips the deck twice
C14_Witness ==
  \E i, j \in 1..Len(stack) : i < j /\ Flips(i) /\ Flips(j)

\* The loop of the call entered last is at a DRAW, the hand is empty, and the
\* move before it on the path was a DRAW
SecondDrawOnEmptyHand ==
  /\ At("loop")
  /\ Top.i < Len(Top.moves)
  /\ CurrentMove.type = DRAW
  /\ Len(TopGame.hand) = 0
  /\ Len(stack) >= 2
  /\ PathMove(Len(stack) - 1).type = DRAW

\* No card has been played from the waste since the last deck flip on the
\* path, or since the root if the path has no deck flip
NoWastePlaySinceFlip ==
  \A i \in 1..(Len(stack) - 1) :
    PlaysWaste(i) => \E k \in (i + 1)..(Len(stack) - 1) : Flips(k)

\* The move the loop was at has been left out: no call has been made and
\* the loop is at the next move
MoveSkipped ==
  /\ Len(stack') = Len(stack)
  /\ stack'[Len(stack')].pc = "loop"
  /\ stack'[Len(stack')].i = Top.i + 1
  /\ solver' = solver
  /\ seenCardStacks' = seenCardStacks

\* C15 as stated: a DRAW considered on an empty hand right after a DRAW is
\* skipped.
C15_SecondDrawSkipped ==
  [][(SecondDrawOnEmptyHand /\ stack' # stack) => MoveSkipped]_vars

\* C15: a DRAW considered on an empty hand right after a DRAW is skipped
\* when no card has been played from the waste since the last deck flip on
\* the path (or since the root).
C15_SecondDrawSkippedUnlessWastePlayed ==
  [][(SecondDrawOnEmptyHand /\ NoWastePlaySinceFlip /\ stack' # stack)
       => MoveSkipped]_vars

\* A DRAW on an empty hand has been skipped right after a DRAW, on a path
\* that has played from the waste and flipped the deck since
C15_Witness ==
  /\ last.op = "SkipDraw"
  /\ Len(stack) >= 2
  /\ Top.moves[Top.i].type = DRAW
  /\ Len(TopGame.hand) = 0
  /\ PathMove(Len(stack) - 1).type = DRAW
  /\ \E i \in 1..(Len(stack) - 1) : PlaysWaste(i)


\* C16: seenCardStacks is strictly undone. Between two moves of the loop of
\* a call of getWinningMoves, that is whenever a maybeApplyMove it made has
\* returned null, and so when the call itself returns null at the end of the
\* loop, seenCardStacks holds exactly the strings it held when the call was
\* entered, also when a stack string of the move was in the set already.
C16_SeenCardStacksRestored ==
  At("loop") => seenCardStacks = Top.entered.seenCardStacks


\* ------------------------------------------------------------------------
\* Properties of the moves the search enumerates (SpecSolve)
\* ------------------------------------------------------------------------

\* The calls of getWinningMoves that have enumerated their moves (line 318)
Expanded == {j \in 1..Len(stack) : stack[j].pc # "entry"}

\* The game of call j
GameOf(j) == View(heap, stack[j].game)

\* The card a move to the foundation moves
FoundationCard(game, move) ==
  IF move.type = WASTE_TO_FOUNDATION
  THEN Last(game.waste)
  ELSE Last(game.tableau[move.extras[1] + 1].faceUp)

\* The group of a move in the priority order of getValidMoves: 1 an ace to
\* the foundation, 2 another card to the foundation, 3 a whole stack from
\* tableau to tableau, 4 waste to tableau, 5 draw, 6 a part of a stack from
\* tableau to tableau
MoveGroup(game, move) ==
  IF move.type = WASTE_TO_FOUNDATION \/ move.type = TABLEAU_TO_FOUNDATION
  THEN IF FoundationCard(game, move)[1] = "A" THEN 1 ELSE 2
  ELSE IF move.type = TABLEAU_TO_TABLEAU
       THEN IF move.extras[2] = 0 THEN 3 ELSE 6
       ELSE IF move.type = WASTE_TO_TABLEAU THEN 4
            ELSE IF move.type = DRAW THEN 5 ELSE 0

\* The groups of the moves of call j
GroupsOf(j) ==
  {MoveGroup(GameOf(j), stack[j].moves[k]) : k \in 1..Len(stack[j].moves)}

\* C17: in the list returned by getValidMoves every move belongs to one of
\* the six groups and the groups come in order: aces to the foundation,
\* other cards to the foundation, whole stacks from tableau to tableau,
\* waste to tableau, draw, parts of stacks from tableau to tableau; when the
\* top of the waste is an ace the first move is WASTE_TO_FOUNDATION.
C17_MoveOrderingGroups ==
  \A j \in Expanded :
    LET game == GameOf(j)
        moves == stack[j].moves
    IN /\ \A a, b \in 1..Len(moves) :
            /\ MoveGroup(game, moves[a]) \in 1..6
            /\ a < b => MoveGroup(game, moves[a]) <= MoveGroup(game, moves[b])
       /\ (Len(game.waste) > 0 /\ Last(game.waste)[1] = "A")
            => (moves # <<>> /\ moves[1].type = WASTE_TO_FOUNDATION)

\* A call has enumerated moves of four groups or more, an ace to the
\* foundation and another card to the foundation among them
C17_Witness ==
  \E j \in Expanded :
    {1, 2} \subseteq GroupsOf(j) /\ Cardinality(GroupsOf(j)) >= 4

\* The whole-stack moves from tableau to tableau among the moves the call on
\* top of the stack has enumerated: the list getCardRevealingMoves returned
RevealingMoves ==
  SelectSeq(Top.moves,
            LAMBDA move : move.type = TABLEAU_TO_TABLEAU /\ move.extras[2] = 0)

\* The source column of a move from tableau to tableau
SourceColumn(move) == move.extras[1]

\* The number of face-down cards of the source column of a move of the call
\* on top of the stack
FaceDownCount(move) == Len(TopGame.tableau[SourceColumn(move) + 1].faceDown)

\* getValidMoves is called for a tableau of which no list is cached yet
\* (line 98 is false): the list is sorted for this game
ComputesRevealingMoves ==
  /\ At("entry")
  /\ TableauCacheString(TopGame) \notin DOMAIN solver.tableauRevealingMoveCache

\* The step is a call of getValidMoves that has sorted its list (line 318)
SortsRevealingMoves ==
  ComputesRevealingMoves /\ At("loop")' /\ Len(stack') = Len(stack)

\* Moves with equal numbers of face-down cards come by source column
TiesBySourceColumn ==
  \A a, b \in 1..Len(RevealingMoves) :
    (a < b /\ FaceDownCount(RevealingMoves[a]) = FaceDownCount(RevealingMoves[b]))
      => SourceColumn(RevealingMoves[a]) <= SourceColumn(RevealingMoves[b])

\* Moves from columns with fewer face-down cards come first
FewerFaceDownFirst ==
  \A a, b \in 1..Len(RevealingMoves) :
    a < b => FaceDownCount(RevealingMoves[a]) <= FaceDownCount(RevealingMoves[b])

\* Moves from columns with more face-down cards come first
MoreFaceDownFirst ==
  \A a, b \in 1..Len(RevealingMoves) :
    a < b => FaceDownCount(RevealingMoves[a]) >= FaceDownCount(RevealingMoves[b])

NeverCached == solver.tableauCacheHit = 0

\* The counts of face-down cards of the source columns of the list
FaceDownCounts ==
  {FaceDownCount(RevealingMoves[k]) : k \in 1..Len(RevealingMoves)}

Most(counts) == CHOOSE n \in counts : \A k \in counts : k <= n
Fewest(counts) == CHOOSE n \in counts : \A k \in counts : n <= k

\* The moves of the list from a column with count face-down cards stand
\* before all the others
StandFirst(count) ==
  \A a, b \in 1..Len(RevealingMoves) :
    (/\ FaceDownCount(RevealingMoves[a]) = count
     /\ FaceDownCount(RevealingMoves[b]) # count) => a < b

\* C19: a freshly computed list of whole-stack moves puts first the moves
\* whose source column has the most face-down cards when a column is empty,
\* and those whose source column has the fewest when no column is empty.
C19_RevealingSortFirst ==
  [][(SortsRevealingMoves /\ RevealingMoves' # <<>>) =>
       (IF hasEmptySpace(TopGame.tableau)
        THEN StandFirst(Most(FaceDownCounts))
        ELSE StandFirst(Fewest(FaceDownCounts)))']_vars

\* A list computed with an empty column has moves from columns with
\* different numbers of face-down cards
C19_Witness ==
  /\ At("loop") /\ Top.i = 0
  /\ NeverCached
  /\ hasEmptySpace(TopGame.tableau)
  /\ Cardinality(FaceDownCounts) >= 2


\* ------------------------------------------------------------------------
\* Properties of won games (SpecWon)
\* ------------------------------------------------------------------------

\* The index in VALUES of the highest card of a suit in the deck, -1 when
\* the deck has no card of the suit: 12, the king, for the 52 cards
HighestOf(suit) ==
  LET held == {indexOf(VALUES, getValue(inputDeck[k])) :
                 k \in {n \in 1..Len(inputDeck) : getSuit(inputDeck[n]) = suit}}
  IN IF held = {} THEN -1 ELSE CHOOSE v \in held : \A w \in held : w <= v

\* Every foundation holds its suit up to the highest card and every column
\* is empty
Complete(game) ==
  /\ \A k \in 1..Len(SUITS) : game.foundation[SUITS[k]] = HighestOf(SUITS[k])
  /\ \A i \in 1..Len(game.tableau) :
       game.tableau[i].faceDown = <<>> /\ game.tableau[i].faceUp = <<>>

\* Some sequence of TABLEAU_TO_FOUNDATION moves, each valid when it is
\* applied, ends in a complete game
RECURSIVE CanFinish(_, _)
CanFinish(h, g) ==
  \/ Complete(View(h, g))
  \/ \E i \in 1..Len(View(h, g).tableau) :
       LET move == Move(TABLEAU_TO_FOUNDATION, <<i - 1>>)
       IN /\ isValid(View(h, g), move)
          /\ CanFinish(applyMove(h, g, move), g)

\* C20: isWon is true exactly when the hand, the waste and the faceDown of
\* every column are empty, and from every game reached by valid moves in
\* which isWon is true, TABLEAU_TO_FOUNDATION moves alone, each valid when
\* applied, lead to the game with every foundation at the highest card of
\* its suit and every column empty.
C20_IsWonSafe ==
  /\ isWon(Game) <=> (/\ Game.hand = <<>>
                      /\ Game.waste = <<>>
                      /\ \A i \in 1..Len(Game.tableau) :
                           Game.tableau[i].faceDown = <<>>)
  /\ isWon(Game) => CanFinish(heap, gameRef)

\* isWon has returned true for a game that has cards in two columns or more
C20_Witness ==
  /\ last.op = "isWon" /\ last.ret
  /\ Cardinality({i \in 1..Len(Game.tableau) : Game.tableau[i].faceUp # <<>>}) >= 2


\* ------------------------------------------------------------------------
\* Properties of the driver (SpecDriver)
\* ------------------------------------------------------------------------

\* The envelope written, when the last call was the console.log of line 60
Envelope == last.ret

\* C21: the handler of a line writes one envelope, at its end and after
\* getWinningMoves has returned; the envelope carries the list returned, its
\* status is "win" exactly when that list is not null, "timeout" exactly
\* when it is null and the solver timed out, "lose" exactly when it is null
\* and the solver did not time out.
C21_ResultEnvelope ==
  /\ last.op = "log" <=> driver.status = "done"
  /\ last.op = "log" =>
       /\ stack = <<>> /\ returned.kind # "none"
       /\ Envelope.winningMoves = returned
       /\ Envelope.status = "win" <=> returned.kind = "moves"
       /\ Envelope.status = "timeout" <=> (returned.kind = "null" /\ solver.didTimeout)
       /\ Envelope.status = "lose" <=> (returned.kind = "null" /\ ~solver.didTimeout)

\* An envelope has been written after a timeout
C21_Witness ==
  /\ last.op = "log"
  /\ Envelope.status = "timeout"
  /\ solver.calls > 0


\* ------------------------------------------------------------------------
\* Properties of the deal and of the moves (Spec)
\* ------------------------------------------------------------------------

\* The number of cards the deal lays on the tableau: n(n+1)/2
TableauCards == (Game.rules.tableauSize * (Game.rules.tableauSize + 1)) \div 2

RECURSIVE WasteTopsOfDraws(_, _, _)
WasteTopsOfDraws(h, g, draws) ==
  IF draws = 0 \/ ~isValid(View(h, g), Move(DRAW, <<>>)) THEN {}
  ELSE LET drawn == applyMove(h, g, Move(DRAW, <<>>))
       IN {Last(View(drawn, g).waste)} \cup WasteTopsOfDraws(drawn, g, draws - 1)

\* Draws enough to go through the hand, flip the deck and go through it
\* once more: later passes repeat that one
FullPasses(game) == 2 * (Len(game.hand) + Len(game.waste)) + 1

\* The cards that can come on top of the waste by drawing only, and the
\* card that is there
DrawableCards ==
  (IF Game.waste # <<>> THEN {Last(Game.waste)} ELSE {})
  \cup WasteTopsOfDraws(heap, gameRef, FullPasses(Game))

\* C23: the cards getGameStateId collects as accessible draw cards are the
\* cards that come on top of the waste when DRAW is applied again and again
\* (through the deck flip and a full pass after it), and the card on top of
\* the waste now.
C23_AccessibleDrawCards == Range(accessibleDrawCards(Game)) = DrawableCards


\* ------------------------------------------------------------------------
\* Properties of the search, continued (SpecSolve)
\* ------------------------------------------------------------------------

\* The list of tableau moves of call j was read from the caches of the
\* solver (solve.js, lines 98-101 and 155-158)
ServedFromCache(j) ==
  TableauCacheString(GameOf(j)) \in
    DOMAIN stack[j].entered.tableauRevealingMoveCache

\* C24: every move in a list returned by getValidMoves is valid in the game
\* the list was made for, the ace moves and the moves read from the caches
\* included, so that applyMove is only called with valid moves.
C24_EnumeratedMovesValid ==
  \A j \in Expanded :
    \A k \in 1..Len(stack[j].moves) : isValid(GameOf(j), stack[j].moves[k])

\* A call has a list with an ace move and with tableau moves read from the
\* cache
C24_Witness ==
  \E j \in Expanded :
    /\ ServedFromCache(j)
    /\ 1 \in GroupsOf(j)
    /\ \E k \in 1..Len(stack[j].moves) : stack[j].moves[k].type = TABLEAU_TO_TABLEAU


\* The state cache is the default one, too large for any key to be evicted
NeverEvicts == solver.stateCache.maxSize = DefaultCacheSize

\* The key of the call on top of the stack (line 298)
TopKey == getGameStateId(TopGame, Top.canFlipDeck)

\* The keys of the state cache
CachedKeys == Range(solver.stateCache.cache)

\* The call on top of the stack goes on from its first line
LeavesEntry == At("entry") /\ stack' # stack

\* The call of the step returns value to its caller and enumerates nothing
ReturnsAtOnce(value) ==
  /\ stack' = ButLast(stack)
  /\ returned' = value
  /\ solver'.calls = solver.calls
  /\ solver'.tableauRevealingMoveCache = solver.tableauRevealingMoveCache
  /\ solver'.tableauNonrevealingMoveCache = solver.tableauNonrevealingMoveCache

\* C25: with a state cache that evicts nothing, a call whose key is in the
\* cache returns null and enumerates nothing, a call that enumerates its
\* moves has a key that was not in the cache and is in it from then on, so
\* that no key is enumerated twice, and calls is the number of keys in the
\* cache; a won game returns the empty list whatever the cache holds.
C25_TranspositionPrune ==
  [][(NeverEvicts /\ LeavesEntry) =>
       /\ isWon(TopGame) => ReturnsAtOnce(MoveList(<<>>))
       /\ (~isWon(TopGame) /\ TopKey \in CachedKeys) => ReturnsAtOnce(Null)
       /\ (~isWon(TopGame) /\ TopKey \notin CachedKeys) =>
            /\ At("loop")'
            /\ solver'.calls = solver.calls + 1
            /\ CachedKeys' = CachedKeys \cup {TopKey}
       /\ CachedKeys \subseteq CachedKeys'
       /\ solver'.calls = Cardinality(CachedKeys')
       /\ solver'.calls = size(solver'.stateCache)]_vars

\* A call has been pruned after others have enumerated their moves
C25_Witness ==
  /\ NeverEvicts
  /\ last.op = "EnterPruned"
  /\ solver.calls >= 3
  /\ solver.calls = size(solver.stateCache)


\* The loop of the call on top of the stack takes its next move and the
\* search goes on
TakesMove ==
  /\ At("loop")
  /\ Top.i < Len(Top.moves)
  /\ stack' # stack
  /\ driver'.status = "solving"

\* The game the move the loop is at leads to
AfterMove == View(Cloned.heap, Cloned.ref)

\* The face-up cards, as one string, of the source and of the destination
\* column of the move the loop is at, after the move
SourceString == join(AfterMove.tableau[CurrentMove.extras[1] + 1].faceUp, <<>>)
DestinationString == join(AfterMove.tableau[CurrentMove.extras[3] + 1].faceUp, <<>>)

\* The move the loop was at is explored: getWinningMoves is called on the
\* game it leads to
MoveExplored ==
  /\ Len(stack') = Len(stack) + 1
  /\ View(heap', stack'[Len(stack')].game) = AfterMove

\* C26: a TABLEAU_TO_TABLEAU move is skipped exactly when the strings of
\* its source and of its destination column after the move are both in
\* seenCardStacks; otherwise it is explored with both strings in the set,
\* and nothing else added. A move of another kind is skipped for a draw
\* that may not flip the deck only, and explored with the set as it was.
C26_StackLoopGuard ==
  [][TakesMove =>
       IF CurrentMove.type = TABLEAU_TO_TABLEAU
       THEN IF SourceString \in seenCardStacks /\ DestinationString \in seenCardStacks
            THEN MoveSkipped
            ELSE /\ MoveExplored
                 /\ seenCardStacks' =
                      seenCardStacks \cup {SourceString, DestinationString}
       ELSE IF drawBlocked(CurrentMove, TopGame, Top.canFlipDeck)
            THEN MoveSkipped
            ELSE MoveExplored /\ seenCardStacks' = seenCardStacks]_vars

\* A TABLEAU_TO_TABLEAU move has been skipped below a TABLEAU_TO_TABLEAU
\* move that has been explored
C26_Witness ==
  /\ last.op = "SkipStack"
  /\ At("loop")
  /\ Top.moves[Top.i].type = TABLEAU_TO_TABLEAU
  /\ \E j \in 1..(Len(stack) - 1) :
       /\ PathMove(j).type = TABLEAU_TO_TABLEAU
       /\ Range(stack[j].newStacks) \subseteq seenCardStacks
       /\ stack[j].newStacks[1] # stack[j].newStacks[2]


\* The TABLEAU_TO_TABLEAU moves on the path from the root to the call
\* entered last
PathStackMoves ==
  {j \in 1..Len(stack) : Applied(j) /\ PathMove(j).type = TABLEAU_TO_TABLEAU}

\* C27: on the path from the root to the call entered last no two
\* TABLEAU_TO_TABLEAU moves have led to the same pair of strings (source
\* column, destination column), and seenCardStacks holds the two strings of
\* every TABLEAU_TO_TABLEAU move of the path.
C27_NoRepeatedStackPattern ==
  /\ \A j, k \in PathStackMoves : j # k => stack[j].newStacks # stack[k].newStacks
  /\ \A j \in PathStackMoves : Range(stack[j].newStacks) \subseteq seenCardStacks

\* ------------------------------------------------------------------------
\* Properties of the moves, continued (Spec)
\* ------------------------------------------------------------------------

\* Column i (from 1) has no face-up card left over face-down cards
Exposed(game, i) ==
  Len(game.tableau[i].faceUp) = 0 /\ Len(game.tableau[i].faceDown) # 0

\* The switch of applyMove leaves column i (from 1) of the game without
\* face-up cards: tableau[srcCol].faceUp.slice(0, 0) of a TABLEAU_TO_TABLEAU
\* move, or the pop of the last face-up card of a TABLEAU_TO_FOUNDATION move.
EmptiesFaceUp(game, move, i) ==
  \/ /\ move.type = TABLEAU_TO_TABLEAU
     /\ move.extras[1] = i - 1
     /\ move.extras[2] = 0
  \/ /\ move.type = TABLEAU_TO_FOUNDATION
     /\ move.extras[1] = i - 1
     /\ Len(game.tableau[i].faceUp) = 1

\* C28: after the deal and after every applyMove of a valid move no column
\* has an empty faceUp over a non-empty faceDown; in one applyMove the
\* faceDown of a column loses exactly its top card, which becomes the only
\* face-up card of the column, if the move emptied the faceUp of the column
\* and its faceDown was not empty, and otherwise stays as it was.
C28_PostMoveFlip ==
  /\ [](\A i \in 1..Len(Game.tableau) : ~Exposed(Game, i))
  /\ [][\A move \in MoveInputs(Game) :
          (last'.op = "applyMove" /\ ApplyMove("game", move)) =>
          \A i \in 1..Len(Game.tableau) :
            LET before == Game.tableau[i]
                after == Game'.tableau[i]
            IN IF EmptiesFaceUp(Game, move, i) /\ Len(before.faceDown) # 0
               THEN /\ after.faceDown = ButLast(before.faceDown)
                    /\ after.faceUp = <<Last(before.faceDown)>>
               ELSE after.faceDown = before.faceDown]_vars

\* A move from a column has been applied and has left it with one face-up
\* card and fewer face-down cards than it was dealt
C28_Witness ==
  /\ last.op = "applyMove"
  /\ last.type \in {TABLEAU_TO_TABLEAU, TABLEAU_TO_FOUNDATION}
  /\ \E i \in 1..Len(Game.tableau) :
       /\ Len(Game.tableau[i].faceUp) = 1
       /\ Len(Game.tableau[i].faceDown) < i - 1
       /\ Len(Game.tableau[i].faceDown) > 0

\* The face-up cards of column col (from 0)
FaceUpOf(col) == Game.tableau[col + 1].faceUp

\* The card fits on a column with these face-up cards: a king on an empty
\* column, or a card one value below and of the other colour than the top
FitsOn(card, faceUp) ==
  IF Len(faceUp) = 0
  THEN getValue(card) = "K"
  ELSE /\ isBlack(card) # isBlack(Last(faceUp))
       /\ indexOf(VALUES, getValue(card)) + 1 = indexOf(VALUES, getValue(Last(faceUp)))

\* C29: in every reachable state isValid of TABLEAU_TO_TABLEAU[src, row, dst]
\* is true exactly when src and dst differ and are columns of the tableau,
\* row is a row of the face-up cards of src, and the card at that row is a
\* king with the face-up cards of dst empty, or is one value below and of
\* the other colour than the top face-up card of dst; with src = dst it is
\* false.
C29_TableauToTableauLegality ==
  \A src, dst \in -1..Len(Game.tableau), row \in -1..MaxFaceUp(Game) :
    isValid(Game, Move(TABLEAU_TO_TABLEAU, <<src, row, dst>>))
      <=> /\ src # dst
          /\ src \in 0..(Len(Game.tableau) - 1)
          /\ dst \in 0..(Len(Game.tableau) - 1)
          /\ row \in 0..(Len(FaceUpOf(src)) - 1)
          /\ FitsOn(FaceUpOf(src)[row + 1], FaceUpOf(dst))

\* isValid has answered in a game where the first face-up card of a column
\* may go to an empty column and that of a column may go onto another card
C29_Witness ==
  /\ last.op = "isValid"
  /\ \E src, dst \in 0..(Len(Game.tableau) - 1) :
       /\ Len(FaceUpOf(dst)) = 0
       /\ isValid(Game, Move(TABLEAU_TO_TABLEAU, <<src, 0, dst>>))
  /\ \E src, dst \in 0..(Len(Game.tableau) - 1) :
       /\ Len(FaceUpOf(dst)) > 0
       /\ isValid(Game, Move(TABLEAU_TO_TABLEAU, <<src, 0, dst>>))

\* How many times the card is in the sequence
Count(s, card) == Cardinality({i \in 1..Len(s) : s[i] = card})

\* The hand a DRAW draws from: the waste turned over when the hand is empty
DrawnFrom(game) == IF Len(game.hand) = 0 THEN Reverse(game.waste) ELSE game.hand

\* The waste a DRAW draws onto
DrawnOnto(game) == IF Len(game.hand) = 0 THEN <<>> ELSE game.waste

\* The number of cards a DRAW moves
Drawn(game) ==
  IF game.rules.drawSize < Len(DrawnFrom(game))
  THEN game.rules.drawSize ELSE Len(DrawnFrom(game))

\* The cards of the hand as dealt
DealtHand == Len(inputDeck) - TableauCards

\* C30: a valid DRAW leaves the foundation and every column as they were and
\* keeps the cards of hand and waste together; if the hand is empty, the
\* hand becomes the waste reversed and the waste becomes empty; then
\* min(drawSize, |hand|) cards go one at a time from the end of the hand to
\* the end of the waste.
C30_DrawEffect ==
  [][(last'.op = "applyMove" /\ last'.type = DRAW) =>
       /\ isValid(Game, Move(DRAW, <<>>))
       /\ Game'.foundation = Game.foundation
       /\ Game'.tableau = Game.tableau
       /\ \A card \in Range(inputDeck) :
            Count(Game'.hand \o Game'.waste, card) = Count(Game.hand \o Game.waste, card)
       /\ Game'.hand = SubSeq(DrawnFrom(Game), 1, Len(DrawnFrom(Game)) - Drawn(Game))
       /\ Len(Game'.waste) = Len(DrawnOnto(Game)) + Drawn(Game)
       /\ \A k \in 1..Len(Game'.waste) :
            Game'.waste[k] =
              IF k <= Len(DrawnOnto(Game)) THEN DrawnOnto(Game)[k]
              ELSE DrawnFrom(Game)[Len(DrawnFrom(Game)) - (k - Len(DrawnOnto(Game))) + 1]]_vars

\* A DRAW has been applied that left cards in the hand, after the waste was
\* turned over with fewer cards than were dealt to the hand: the hand is no
\* whole number of draws from the hand as dealt
C30_Witness ==
  /\ last.op = "applyMove"
  /\ last.type = DRAW
  /\ Len(Game.hand) > 0
  /\ Len(Game.waste) = Game.rules.drawSize
  /\ (DealtHand - Len(Game.hand)) % Game.rules.drawSize # 0

\* ------------------------------------------------------------------------
\* Properties of the enumeration (SpecSolve)
\* ------------------------------------------------------------------------

\* The solver with no list of moves cached: lines 98 and 155 are false and
\* both lists are computed from the game
Uncached(s) ==
  [s EXCEPT !.tableauRevealingMoveCache = <<>>,
            !.tableauNonrevealingMoveCache = <<>>]

\* The moves from tableau to tableau of a list, in its order
TableauMoves(moves) ==
  SelectSeq(moves, LAMBDA move : move.type = TABLEAU_TO_TABLEAU)

\* C31: in every game of the search the moves from tableau to tableau that
\* getValidMoves returned, read from the caches of getCardRevealingMoves and
\* getMovesTableauToTableau under the key of the face-up cards, are the moves
\* the two functions compute for the game without a cache, in the same
\* order.
C31_MoveCacheFidelity ==
  \A j \in Expanded :
    TableauMoves(stack[j].moves)
      = TableauMoves(getValidMoves(Uncached(solver), GameOf(j)).ret)

\* The list holds no move from the foundation to the tableau
NoFoundationToTableau(moves) ==
  \A k \in 1..Len(moves) : moves[k].type # FOUNDATION_TO_TABLEAU

\* The number of face-down cards of a game
FaceDownTotal(game) ==
  Len(Flatten([i \in 1..Len(game.tableau) |-> game.tableau[i].faceDown]))

\* getValidMoves has returned its list to the call on top of the stack
Listed == stack # <<>> /\ Top.pc # "entry"

\* The game of the call that made the call on top of the stack
CallerGame == GameOf(Len(stack) - 1)

\* C32: no list returned by getValidMoves and no list returned by
\* getWinningMoves holds a FOUNDATION_TO_TABLEAU move; along every path of
\* the search no foundation gets lower and the number of face-down cards
\* does not grow: not from the game of a call to the game of a call it
\* makes.
C32_NoFoundationToTableau ==
  /\ Listed => NoFoundationToTableau(Top.moves)
  /\ NoFoundationToTableau(returned.moves)
  /\ Len(stack) >= 2 =>
       /\ \A suit \in Range(SUITS) :
            CallerGame.foundation[suit] <= TopGame.foundation[suit]
       /\ FaceDownTotal(CallerGame) >= FaceDownTotal(TopGame)

\* A call has returned a list of moves to a path on which a foundation has
\* risen and a face-down card has been turned since the first call
C32_Witness ==
  /\ returned.kind = "moves"
  /\ Len(returned.moves) > 0
  /\ Len(stack) >= 2
  /\ \E suit \in Range(SUITS) : GameOf(1).foundation[suit] < TopGame.foundation[suit]
  /\ FaceDownTotal(GameOf(1)) > FaceDownTotal(TopGame)

\* ------------------------------------------------------------------------
\* Properties of the count of calls (SpecTimeout)
\* ------------------------------------------------------------------------

\* getWinningMoves has returned to the driver (line 25)
SolveReturned ==
  /\ driver.status = "solving"
  /\ stack = <<>>
  /\ returned.kind # "none"

\* The times getWinningMoves has been entered: the call of the driver and
\* the calls of line 264
Entries == 1 + fired["Descend"]

\* The entries that returned at the timeout check, at the win check or at
\* the transposition prune
EarlyReturns == fired["EnterTimeout"] + fired["EnterWon"] + fired["EnterPruned"]

MaxReplay == 2

\* The moves of the lists replayed
ReplayMoves ==
  {Move(DRAW, <<>>), Move(WASTE_TO_FOUNDATION, <<>>), Move(WASTE_TO_TABLEAU, <<0>>),
   Move(TABLEAU_TO_FOUNDATION, <<0>>), Move(TABLEAU_TO_TABLEAU, <<0, 0, 1>>)}

ReplayLists == UNION {[1..n -> ReplayMoves] : n \in 0..MaxReplay}

\* winningMoves = solver.getWinningMoves() (line 25) has given this list
Returns(moves) ==
  /\ driver.status = "ready"
  /\ driver' = [driver EXCEPT !.status = "solving"]
  /\ returned' = MoveList(moves)
  /\ last' = Called("getWinningMoves", "solver", 0, FALSE)
  /\ UNCHANGED <<history, inputDeck, heap, gameRef, otherRef, solver, seenCardStacks,
                 stack, now, fired>>

NextReplay ==
  \/ \E moves \in ReplayLists : Returns(moves)
  \/ Finish
  \/ Replay
  \/ Emit

SpecReplay == InitDriver /\ [][NextReplay]_vars

SolverMoves(game) ==
  {move \in MoveInputs(game) : move.type # FOUNDATION_TO_TABLEAU}

\* The list of call j holds a whole-stack move and a partial-stack move
\* from tableau to tableau
WholeAndPartial(j) ==
  /\ \E k \in 1..Len(stack[j].moves) :
       stack[j].moves[k].type = TABLEAU_TO_TABLEAU /\ stack[j].moves[k].extras[2] = 0
  /\ \E k \in 1..Len(stack[j].moves) :
       stack[j].moves[k].type = TABLEAU_TO_TABLEAU /\ stack[j].moves[k].extras[2] > 0

\* C35: in every game of the search every move of the kinds DRAW,
\* WASTE_TO_FOUNDATION, WASTE_TO_TABLEAU, TABLEAU_TO_FOUNDATION and
\* TABLEAU_TO_TABLEAU for which isValid is true is exactly once in the list
\* getValidMoves returned: an ace move is not repeated among the other moves
\* to the foundation, nor a whole-stack move among the partial-stack moves.
C35_EnumerationComplete ==
  Listed =>
    /\ \A move \in SolverMoves(TopGame) :
         isValid(TopGame, move) => Count(Top.moves, move) = 1
    /\ \A a, b \in 1..Len(Top.moves) : a # b => Top.moves[a] # Top.moves[b]

\* On one path a call has a list with an ace move and a call has a list with
\* a whole-stack move and a partial-stack move
C35_Witness ==
  /\ Listed
  /\ \E j \in Expanded : 1 \in GroupsOf(j)
  /\ \E j \in Expanded : WholeAndPartial(j)

====

